---- MODULE Spec2Model ----
(***************************************************************************)
(* Identity resolution and dialogue routing of go-ai-chatbot.              *)
(*                                                                         *)
(* A Go string is modelled as a sequence of one-character strings, so that *)
(* trimming, lower-casing, substring search and the regular expressions    *)
(* are computed and not assumed.  Opaque texts (fixed replies, ids that    *)
(* flow into text fields) are one-element sequences holding the whole text.*)
(***************************************************************************)
EXTENDS Integers, Sequences, FiniteSets, TLC

\* ------------------------------------------------------------------------
\* strings
\* ------------------------------------------------------------------------

Digits == {"0", "1", "2", "3", "4", "5", "6", "7", "8", "9"}

UpperCase == <<"A", "B", "C", "D", "E", "F", "G", "H", "I", "J", "K", "L", "M",
               "N", "O", "P", "Q", "R", "S", "T", "U", "V", "W", "X", "Y", "Z">>

LowerCase == <<"a", "b", "c", "d", "e", "f", "g", "h", "i", "j", "k", "l", "m",
               "n", "o", "p", "q", "r", "s", "t", "u", "v", "w", "x", "y", "z">>

Letters == {UpperCase[i] : i \in DOMAIN UpperCase} \cup {LowerCase[i] : i \in DOMAIN LowerCase}

WhiteSpace == {" ", "\t", "\n"}

IsWordChar(c) == c \in Letters \cup Digits \cup {"_"}

\* strings.ToLower on one character
LowerChar(c) ==
    IF \E i \in DOMAIN UpperCase : UpperCase[i] = c
    THEN LowerCase[CHOOSE i \in DOMAIN UpperCase : UpperCase[i] = c]
    ELSE c

ToLower(s) == [i \in DOMAIN s |-> LowerChar(s[i])]

Slice(s, i, j) == IF i > j THEN <<>> ELSE SubSeq(s, i, j)

\* strings.TrimSpace: drop leading and trailing white space
TrimSpace(s) ==
    LET keep == {i \in DOMAIN s : s[i] \notin WhiteSpace}
    IN  IF keep = {} THEN <<>>
        ELSE LET lo == CHOOSE i \in keep : \A j \in keep : i <= j
                 hi == CHOOSE i \in keep : \A j \in keep : j <= i
             IN  SubSeq(s, lo, hi)

HasPrefixAt(s, i, p) ==
    /\ i >= 1
    /\ i + Len(p) - 1 <= Len(s)
    /\ \A k \in 1..Len(p) : s[i + k - 1] = p[k]

\* strings.Index: first position of sub in s, 0 when absent
Index(s, sub) ==
    LET at == {i \in 1..(Len(s) + 1) : HasPrefixAt(s, i, sub)}
    IN  IF at = {} THEN 0 ELSE CHOOSE i \in at : \A j \in at : i <= j

Contains(s, sub) == Index(s, sub) # 0

\* the last position of the run of characters of class cls that starts at i
\* (i - 1 when s[i] is not in cls)
RunEnd(s, i, cls) ==
    LET stop == {j \in i..Len(s) : s[j] \notin cls}
    IN  IF stop = {} THEN Len(s)
        ELSE (CHOOSE j \in stop : \A k \in stop : j <= k) - 1

\* regexp \b between positions k and k+1 (k = 0: before the first character)
WordBoundary(s, k) ==
    LET before == k >= 1 /\ k <= Len(s) /\ IsWordChar(s[k])
        after  == k + 1 >= 1 /\ k + 1 <= Len(s) /\ IsWordChar(s[k + 1])
    IN  before # after

MinOf(S) == CHOOSE x \in S : \A y \in S : x <= y
MaxOf(S) == CHOOSE x \in S : \A y \in S : y <= x

\* ------------------------------------------------------------------------
\* normalisation (src/util.go)
\* ------------------------------------------------------------------------

Filter(s, cls) == SelectSeq(s, LAMBDA c : c \in cls)

normalizeEmail(s) == ToLower(TrimSpace(s))

normalizePhone(s0) ==
    LET s == TrimSpace(s0)
    IN  IF s = <<>> THEN <<>>
        ELSE IF s[1] = "+" THEN <<"+">> \o Filter(Tail(s), Digits)
        ELSE Filter(s, Digits)

\* ------------------------------------------------------------------------
\* the pattern recognizers (reEmail, rePhone, reOrder)
\* ------------------------------------------------------------------------

EmailLocalClass == Letters \cup Digits \cup {".", "_", "%", "+", "-"}
EmailDomainClass == Letters \cup Digits \cup {".", "-"}
PhoneMidClass == Digits \cup WhiteSpace \cup {"-"}
OrderIdClass == Letters \cup Digits \cup {"-"}

\* reEmail anchored at i: the end of the match, 0 when there is none
EmailEndAt(s, i) ==
    IF ~(i <= Len(s) /\ s[i] \in EmailLocalClass /\ WordBoundary(s, i - 1)) THEN 0
    ELSE LET at == RunEnd(s, i, EmailLocalClass) + 1
         IN  IF ~(at <= Len(s) /\ s[at] = "@") THEN 0
             ELSE LET de == RunEnd(s, at + 1, EmailDomainClass)
                      dots == {d \in (at + 2)..de :
                                  /\ s[d] = "."
                                  /\ RunEnd(s, d + 1, Letters) - d >= 2
                                  /\ WordBoundary(s, RunEnd(s, d + 1, Letters))}
                  IN  IF dots = {} THEN 0 ELSE RunEnd(s, MaxOf(dots) + 1, Letters)

\* reEmail.FindString: the leftmost match, "" when there is none
FindEmail(s) ==
    LET starts == {i \in DOMAIN s : EmailEndAt(s, i) # 0}
    IN  IF starts = {} THEN <<>>
        ELSE Slice(s, MinOf(starts), EmailEndAt(s, MinOf(starts)))

\* rePhone anchored at i
PhoneEndAt(s, i) ==
    IF ~(i <= Len(s) /\ WordBoundary(s, i - 1)) THEN 0
    ELSE LET p == IF s[i] = "+" THEN i + 1 ELSE i
         IN  IF ~(p <= Len(s) /\ s[p] \in Digits) THEN 0
             ELSE LET me == RunEnd(s, p + 1, PhoneMidClass)
                      ends == {j \in (p + 9)..me : s[j] \in Digits /\ WordBoundary(s, j)}
                  IN  IF ends = {} THEN 0 ELSE MaxOf(ends)

FindPhone(s) ==
    LET starts == {i \in DOMAIN s : PhoneEndAt(s, i) # 0}
    IN  IF starts = {} THEN <<>>
        ELSE Slice(s, MinOf(starts), PhoneEndAt(s, MinOf(starts)))

\* one alternative of reOrder's first group (prefix "order" or "ord") anchored
\* at i: <<start, end>> of the second group, <<0, 0>> when it does not match
OrderAltAt(s, i, prefix) ==
    IF ~HasPrefixAt(ToLower(s), i, prefix) THEN <<0, 0>>
    ELSE LET k1 == RunEnd(s, i + Len(prefix), WhiteSpace) + 1
             k2 == IF k1 <= Len(s) /\ s[k1] = "#" THEN k1 + 1 ELSE k1
             g  == RunEnd(s, k2, WhiteSpace) + 1
             ge == RunEnd(s, g, OrderIdClass)
             ends == {j \in (g + 3)..ge : WordBoundary(s, j)}
         IN  IF ends = {} THEN <<0, 0>> ELSE <<g, MaxOf(ends)>>

OrderGroupAt(s, i) ==
    IF ~WordBoundary(s, i - 1) THEN <<0, 0>>
    ELSE IF OrderAltAt(s, i, <<"o", "r", "d", "e", "r">>) # <<0, 0>>
         THEN OrderAltAt(s, i, <<"o", "r", "d", "e", "r">>)
         ELSE OrderAltAt(s, i, <<"o", "r", "d">>)

\* reOrder.FindStringSubmatch(s)[2], "" when there is no match
FindOrderID(s) ==
    LET starts == {i \in DOMAIN s : OrderGroupAt(s, i) # <<0, 0>>}
    IN  IF starts = {} THEN <<>>
        ELSE LET g == OrderGroupAt(s, MinOf(starts)) IN Slice(s, g[1], g[2])

MyNameIs == <<"m", "y", " ", "n", "a", "m", "e", " ", "i", "s">>

\* the "my name is" heuristic: the name, "" when it does not apply
FindName(s) ==
    LET idx == Index(ToLower(s), MyNameIs)
        name == IF idx = 0 THEN <<>> ELSE TrimSpace(Slice(s, idx + Len(MyNameIs), Len(s)))
    IN  IF Len(name) > 0 /\ Len(name) < 60 THEN name ELSE <<>>

\* ------------------------------------------------------------------------
\* maps with string keys: a missing key reads as ""
\* ------------------------------------------------------------------------

Get(f, k) == IF k \in DOMAIN f THEN f[k] ELSE <<>>
Put(f, k, v) == [x \in (DOMAIN f) \cup {k} |-> IF x = k THEN v ELSE f[x]]
Drop(f, ks) == [x \in (DOMAIN f) \ ks |-> f[x]]
EmptyMap == [x \in {} |-> <<>>]

\* ------------------------------------------------------------------------
\* intents and the routing table
\* ------------------------------------------------------------------------

IntentOther == "other"

\* the keyword groups of classifyIntent, in the order of its switch
KeywordGroups ==
    <<[intent |-> "order_status",
       keywords |-> {<<"t", "r", "a", "c", "k">>,
                     <<"w", "h", "e", "r", "e", " ", "i", "s", " ", "m", "y", " ", "o", "r", "d", "e", "r">>,
                     <<"d", "e", "l", "i", "v", "e", "r", "y">>,
                     <<"o", "r", "d", "e", "r", " ", "s", "t", "a", "t", "u", "s">>}],
      [intent |-> "return_refund",
       keywords |-> {<<"r", "e", "t", "u", "r", "n">>,
                     <<"r", "e", "f", "u", "n", "d">>,
                     <<"e", "x", "c", "h", "a", "n", "g", "e">>,
                     <<"c", "a", "n", "c", "e", "l">>}],
      [intent |-> "complaint_support",
       keywords |-> {<<"c", "o", "m", "p", "l", "a", "i", "n", "t">>,
                     <<"d", "a", "m", "a", "g", "e", "d">>,
                     <<"w", "r", "o", "n", "g", " ", "i", "t", "e", "m">>,
                     <<"n", "o", "t", " ", "r", "e", "c", "e", "i", "v", "e", "d">>}],
      [intent |-> "lead_capture",
       keywords |-> {<<"b", "u", "l", "k">>,
                     <<"w", "h", "o", "l", "e", "s", "a", "l", "e">>,
                     <<"c", "a", "l", "l", " ", "m", "e">>,
                     <<"c", "o", "n", "t", "a", "c", "t", " ", "m", "e">>}],
      [intent |-> "comparison",
       keywords |-> {<<"c", "o", "m", "p", "a", "r", "e">>,
                     <<"v", "s", " ">>}],
      [intent |-> "pricing_availability",
       keywords |-> {<<"p", "r", "i", "c", "e">>,
                     <<"i", "n", " ", "s", "t", "o", "c", "k">>}],
      [intent |-> "product_discovery",
       keywords |-> {<<"r", "e", "c", "o", "m", "m", "e", "n", "d">>,
                     <<"s", "u", "g", "g", "e", "s", "t">>,
                     <<"b", "e", "s", "t", " ", "f", "o", "r">>,
                     <<"h", "e", "l", "p", " ", "m", "e", " ", "c", "h", "o", "o", "s", "e">>}]>>

\* classifyIntent with a fault: the last matching group wins
classifyIntentLastMatch(text) ==
    LET t == ToLower(text)
        hit == {g \in DOMAIN KeywordGroups :
                   \E k \in KeywordGroups[g].keywords : Contains(t, k)}
    IN  IF hit = {} THEN IntentOther ELSE KeywordGroups[MaxOf(hit)].intent

\* classifyIntent: the first group with a keyword contained in the lower-cased
\* text, "other" when none matches
classifyIntent(text) ==
    LET t == ToLower(text)
        hit == {g \in DOMAIN KeywordGroups :
                   \E k \in KeywordGroups[g].keywords : Contains(t, k)}
    IN  IF hit = {} THEN IntentOther ELSE KeywordGroups[MinOf(hit)].intent

NoTools == [NeedsShopifyLookup |-> FALSE, NeedsZohoCRM |-> FALSE,
            NeedsZohoDesk |-> FALSE, NeedsBrevoEmail |-> FALSE]

\* the clarifying questions are opaque texts, named by intent and position
RoutingTable ==
    [product_discovery |->
        [RequiredAnyOf |-> <<>>, RequiredAllOf |-> <<>>,
         ClarifyQuestions |-> <<<<"Q:product_discovery:1">>, <<"Q:product_discovery:2">>>>,
         ToolPlan |-> NoTools],
     order_status |->
        [RequiredAnyOf |-> <<<<"order_id">>, <<"email">>, <<"phone">>>>,
         RequiredAllOf |-> <<>>,
         ClarifyQuestions |-> <<<<"Q:order_status:1">>, <<"Q:order_status:2">>>>,
         ToolPlan |-> [NoTools EXCEPT !.NeedsShopifyLookup = TRUE]],
     return_refund |->
        [RequiredAnyOf |-> <<>>,
         RequiredAllOf |-> <<"order_id", "item", "reason">>,
         ClarifyQuestions |-> <<<<"Q:return_refund:1">>, <<"Q:return_refund:2">>>>,
         ToolPlan |-> [NoTools EXCEPT !.NeedsZohoDesk = TRUE]],
     complaint_support |->
        [RequiredAnyOf |-> <<<<"phone">>, <<"email">>>>,
         RequiredAllOf |-> <<>>,
         ClarifyQuestions |-> <<<<"Q:complaint_support:1">>, <<"Q:complaint_support:2">>>>,
         ToolPlan |-> [NoTools EXCEPT !.NeedsZohoDesk = TRUE]],
     lead_capture |->
        [RequiredAnyOf |-> <<<<"phone">>, <<"email">>>>,
         RequiredAllOf |-> <<>>,
         ClarifyQuestions |-> <<<<"Q:lead_capture:1">>, <<"Q:lead_capture:2">>>>,
         ToolPlan |-> [NoTools EXCEPT !.NeedsZohoCRM = TRUE]],
     other |->
        [RequiredAnyOf |-> <<>>, RequiredAllOf |-> <<>>,
         ClarifyQuestions |-> <<<<"Q:other:1">>>>,
         ToolPlan |-> NoTools]]

\* uniqueFields: the first occurrence of every field, in order
uniqueFields(fs) ==
    LET first == {i \in DOMAIN fs : \A j \in 1..(i - 1) : fs[j] # fs[i]}
        Pick[n \in 0..Len(fs)] ==
            IF n = 0 THEN <<>>
            ELSE IF n \in first THEN Append(Pick[n - 1], fs[n]) ELSE Pick[n - 1]
    IN  Pick[Len(fs)]

\* one "any of" group is satisfied: every field is in the facts, a phone also
\* when the inbound carries a channel address
GroupOK(group, facts, in) ==
    \A i \in DOMAIN group :
        \/ group[i] = "phone" /\ in.WhatsAppFrom # <<>>
        \/ Get(facts, group[i]) # <<>>

missingFields(spec, facts, in) ==
    LET allOf == SelectSeq(spec.RequiredAllOf, LAMBDA f : Get(facts, f) = <<>>)
        anyOf == IF /\ Len(spec.RequiredAnyOf) > 0
                    /\ ~\E g \in DOMAIN spec.RequiredAnyOf :
                            GroupOK(spec.RequiredAnyOf[g], facts, in)
                 THEN SelectSeq(spec.RequiredAnyOf[1], LAMBDA f : Get(facts, f) = <<>>)
                 ELSE <<>>
    IN  uniqueFields(allOf \o anyOf)

\* strings.Join(names, ", ") after the generic lead-in
JoinFields(fs) ==
    LET J[n \in 0..Len(fs)] ==
            IF n = 0 THEN <<>>
            ELSE IF n = 1 THEN <<fs[1]>>
            ELSE J[n - 1] \o <<", ", fs[n]>>
    IN  J[Len(fs)]

askForMissing(spec, missing) ==
    IF Len(spec.ClarifyQuestions) > 0 THEN spec.ClarifyQuestions[1]
    ELSE <<"I need a bit more info: ">> \o JoinFields(missing)

\* ------------------------------------------------------------------------
\* fixed texts
\* ------------------------------------------------------------------------

identityConflictReply ==
    <<"I found a different account for that email/phone. Reply SWITCH to use it, or GUEST to continue here.">>

\* Router.Handle's reply to a redelivered message id (its leading check mark omitted)
DuplicateReply == <<"Got it. (Duplicate message ignored.)">>

LLMErrorReply == <<"Sorry - I ran into an error. Please try again.">>
OrderNotFoundReply == <<"I couldn't find a matching order.">>
OrderFoundReply == <<"Here's what I found: Status">>
CRMSavedReply == <<"Thanks - I've saved your details.">>
TicketCapturedReply == <<"I've captured the details.">>
BrevoSentReply == <<"Done - I've sent the details to your email.">>
LLMReply == <<"LLM:reply">>
\* longer answers of the language model
LLMLongReply == <<"LLM:long reply">>
LLMHugeReply == <<"LLM:huge reply">>

\* len() of the opaque texts, in bytes as Go counts them
OpaqueLen ==
    [t \in {identityConflictReply[1], DuplicateReply[1], LLMErrorReply[1],
            OrderNotFoundReply[1], OrderFoundReply[1], CRMSavedReply[1],
            TicketCapturedReply[1], BrevoSentReply[1], LLMReply[1],
            LLMLongReply[1], LLMHugeReply[1],
            "Q:product_discovery:1", "Q:order_status:1", "Q:return_refund:1",
            "Q:complaint_support:1", "Q:lead_capture:1", "Q:other:1"} |->
        CASE t = identityConflictReply[1] -> 100
          [] t = DuplicateReply[1] -> 40
          [] t = LLMErrorReply[1] -> 48
          [] t = OrderNotFoundReply[1] -> 107
          [] t = OrderFoundReply[1] -> 40
          [] t = CRMSavedReply[1] -> 109
          [] t = TicketCapturedReply[1] -> 74
          [] t = BrevoSentReply[1] -> 47
          [] t = LLMReply[1] -> 120
          [] t = LLMLongReply[1] -> 700
          [] t = LLMHugeReply[1] -> 2000
          [] t = "Q:product_discovery:1" -> 56
          [] t = "Q:order_status:1" -> 101
          [] t = "Q:return_refund:1" -> 26
          [] t = "Q:complaint_support:1" -> 83
          [] t = "Q:lead_capture:1" -> 60
          [] t = "Q:other:1" -> 79]

\* len(text): one per character, the table's length for an opaque text
TextLen(t) ==
    LET L[n \in 0..Len(t)] ==
            IF n = 0 THEN 0
            ELSE L[n - 1] + (IF t[n] \in DOMAIN OpaqueLen THEN OpaqueLen[t[n]] ELSE 1)
    IN  L[Len(t)]

SummaryMax == 1500

\* NewSummaryLen with a fault: the summary is not cut
NewSummaryLenUncut(old, reply) ==
    (IF old > 0 THEN old + 1 ELSE 0) + 3 + TextLen(reply)

\* persistAssistant's rolling summary, as its length: "\n" between entries,
\* "A: " before the reply, cut to the trailing SummaryMax bytes
NewSummaryLen(old, reply) ==
    LET n == (IF old > 0 THEN old + 1 ELSE 0) + 3 + TextLen(reply)
    IN  IF n > SummaryMax THEN SummaryMax ELSE n

\* ------------------------------------------------------------------------
\* inbound messages and the collaborators' answers
\* ------------------------------------------------------------------------

TxtHello == <<"h", "e", "l", "l", "o">>
TxtEmail == <<"m", "y", " ", "e", "m", "a", "i", "l", " ", "i", "s", " ", "a", "@", "B", ".", "c", "o", "m">>
TxtPhone == <<"c", "a", "l", "l", " ", "1", " ", "5", "5", "5", " ", "0", "1", "0", " ", "0", "0", "0", "1">>
TxtSwitch == <<" ", "S", "w", "i", "t", "c", "h", " ">>
TxtGuest == <<"G", "U", "E", "S", "T">>

\* the texts of the identity dialogue
IdentityTexts == {TxtHello, TxtEmail, TxtPhone, TxtSwitch, TxtGuest}

\* texts that reach the routing table's intents
TxtWhere == <<"w", "h", "e", "r", "e", " ", "i", "s", " ", "m", "y", " ", "o", "r", "d", "e", "r">>
TxtTrack == <<"t", "r", "a", "c", "k", " ", "o", "r", "d", "e", "r", " ", "1", "2", "3", "4", "5">>
TxtLate ==
    <<"H", "i", ",", " ", "m", "y", " ", "o", "r", "d", "e", "r", " ", "1", "2", "3", "4", "5", " ", "i", "s", " ", "l", "a", "t", "e", ",", " ", "e", "m", "a", "i", "l", " ", "i", "s", " ", "a", "@", "B", ".", "c", "o", "m">>
TxtCallMe == <<"c", "a", "l", "l", " ", "m", "e">>
TxtDamaged == <<"i", "t", " ", "a", "r", "r", "i", "v", "e", "d", " ", "d", "a", "m", "a", "g", "e", "d">>
TxtRefund == <<"r", "e", "f", "u", "n", "d", " ", "o", "r", "d", "e", "r", " ", "1", "2", "3", "4", "5">>

TxtCompare == <<"c", "o", "m", "p", "a", "r", "e", " ", "a", " ", "a", "n", "d", " ", "b">>
TxtPrice == <<"w", "h", "a", "t", " ", "i", "s", " ", "t", "h", "e", " ", "p", "r", "i", "c", "e">>
RouteTexts == {TxtWhere, TxtTrack, TxtLate, TxtCallMe, TxtDamaged, TxtRefund,
               TxtCompare, TxtPrice}

\* a text that spells out an email address and a phone number, and one that
\* gives a name only
TxtBoth == TxtEmail \o <<" ">> \o TxtPhone
TxtName == <<"m", "y", " ", "n", "a", "m", "e", " ", "i", "s", " ", "A", "n", "n">>

UserTexts == IdentityTexts \cup RouteTexts \cup {TxtBoth, TxtName}

WebSession == <<"sid-web-1">>
OtherWebSession == <<"sid-web-2">>
WaPhone == <<"1", "5", "5", "5", "0", "1", "0", "0", "0", "0", "1">>
WaSession == <<"wa:">> \o WaPhone

\* what the web chat handler builds: no message id, no channel address
WebInbounds ==
    {[Channel |-> "web", SessionID |-> WebSession, UserText |-> t,
      WhatsAppMsgID |-> "", WhatsAppFrom |-> <<>>] : t \in IdentityTexts}

\* what a messaging webhook builds: the session is the sender's address and
\* every message has its own channel message id; handling one of them again is
\* a redelivery
WaMsgID == [t \in IdentityTexts \ {TxtPhone} |->
              CASE t = TxtHello -> "wamid.1"
                [] t = TxtEmail -> "wamid.2"
                [] t = TxtSwitch -> "wamid.3"
                [] t = TxtGuest -> "wamid.4"]

WaInbounds ==
    {[Channel |-> "whatsapp_meta", SessionID |-> WaSession, UserText |-> t,
      WhatsAppMsgID |-> WaMsgID[t], WhatsAppFrom |-> WaPhone] : t \in DOMAIN WaMsgID}

Inbounds == WebInbounds \cup WaInbounds

NoInbound == [Channel |-> "", SessionID |-> <<>>, UserText |-> <<>>,
              WhatsAppMsgID |-> "", WhatsAppFrom |-> <<>>]

\* the answers of the collaborators in one turn: the structured extractor
\* (an error, or the fields it returns), the integration, the chat model and
\* the store's answer to the history read
EnvOK == [extract_err |-> FALSE, extracted |-> EmptyMap, tool |-> "ok", chat_err |-> FALSE,
          history_err |-> FALSE]
EnvDown == [extract_err |-> TRUE, extracted |-> EmptyMap, tool |-> "err", chat_err |-> TRUE,
            history_err |-> FALSE]
\* the store refuses the history read
EnvNoHistory == [EnvOK EXCEPT !.history_err = TRUE]
\* the extractor returns the item and the reason of a return
EnvExtracted ==
    [EnvOK EXCEPT !.extracted = [item |-> <<"s", "h", "o", "e">>, reason |-> <<"s", "m", "a", "l", "l">>]]
\* the integration fails, the chat model answers
EnvToolDown == [EnvOK EXCEPT !.tool = "err"]
\* the extractor returns an email address that the text does not spell out
EnvExtractedEmail ==
    [EnvOK EXCEPT !.extracted = [email |-> <<"a", "@", "b", ".", "c", "o", "m">>]]
Envs == {EnvOK, EnvDown, EnvNoHistory, EnvExtracted, EnvToolDown, EnvExtractedEmail}

\* the turns the model takes: every inbound with the collaborators up, and the
\* texts that reach them also with the collaborators down
TurnInputs ==
    {[in |-> i, env |-> EnvOK] : i \in Inbounds}
    \cup {[in |-> i, env |-> EnvDown] : i \in {x \in Inbounds : x.UserText = TxtHello}}

\* ------------------------------------------------------------------------
\* fact extraction
\* ------------------------------------------------------------------------

\* the recognizers' matches in one text
RegexFacts(text) ==
    [email |-> FindEmail(text), phone |-> FindPhone(text),
     order_id |-> FindOrderID(text), name |-> FindName(text)]

\* evaluated once per text
TextFacts == [t \in UserTexts |-> RegexFacts(t)]

Overlay(f, extracted) ==
    LET set == {k \in DOMAIN extracted : TrimSpace(extracted[k]) # <<>>}
    IN  [k \in (DOMAIN f) \cup set |->
            IF k \in set THEN TrimSpace(extracted[k]) ELSE f[k]]

\* extractFacts, its deterministic part, one operator per statement: the
\* channel phone seeds the map, then the recognizers' matches m are added
SeedPhone(in) ==
    IF in.WhatsAppFrom # <<>>
    THEN Put(EmptyMap, "phone", normalizePhone(in.WhatsAppFrom)) ELSE EmptyMap

AddEmail(f, m) ==
    IF m.email # <<>> THEN Put(f, "email", normalizeEmail(m.email)) ELSE f

AddPhone(f, m) ==
    IF m.phone # <<>> /\ Get(f, "phone") = <<>>
    THEN Put(f, "phone", normalizePhone(m.phone)) ELSE f

AddOrderID(f, m) ==
    IF m.order_id # <<>> THEN Put(f, "order_id", TrimSpace(m.order_id)) ELSE f

AddName(f, m) ==
    IF m.name # <<>> THEN Put(f, "name", m.name) ELSE f

DeterministicFacts(in, m) ==
    AddName(AddOrderID(AddPhone(AddEmail(SeedPhone(in), m), m), m), m)

\* WithExtractor with a fault: a failed extractor leaves no facts
WithExtractorAllOrNothing(f, llm, env) ==
    IF llm = "nil" THEN [facts |-> f, err |-> ""]
    ELSE IF env.extract_err THEN [facts |-> EmptyMap, err |-> "extractor error"]
    ELSE [facts |-> Overlay(f, env.extracted), err |-> ""]

\* the extractor's answer laid over the deterministic facts f
WithExtractor(f, llm, env) ==
    IF llm = "nil" THEN [facts |-> f, err |-> ""]
    ELSE IF env.extract_err THEN [facts |-> f, err |-> "extractor error"]
    ELSE [facts |-> Overlay(f, env.extracted), err |-> ""]

\* Router.extractFacts; llm is "nil" for a router without a language model
extractFacts(in, llm, env) ==
    WithExtractor(DeterministicFacts(in, TextFacts[in.UserText]), llm, env)

\* ------------------------------------------------------------------------
\* the store (the tables the core reads and writes) and a turn's locals
\* ------------------------------------------------------------------------

VARIABLES
    app_users,          \* id -> AppUser row
    user_sessions,      \* session_id -> UserSession row
    identity_keys,      \* set of [key_type, key_value, user_id]
    conversations,      \* sequence of Conversation rows, in creation order
    messages,           \* sequence of Message rows, in creation order
    events,             \* sequence of Event rows
    idempotency_keys,   \* set of processed channel message ids
    task,               \* task -> the locals of its call of Router.Handle
    turns,              \* number of calls of Router.Handle begun so far
    request,            \* the language-model client's call of createResponse
    cfg,                \* server -> main's position and its RuntimeConfig
    response,           \* server -> its last /v1/config response
    call                \* a call of one of the core's functions: arguments and result

vars == <<app_users, user_sessions, identity_keys, conversations, messages,
          events, idempotency_keys, task, turns, request, cfg, response, call>>

\* what a call of Router.Handle leaves alone
clientVars == <<request, cfg, response, call>>

MaxTurns == 4
Tasks == {1, 2}

UserIDs == <<"u1", "u2", "u3">>
ConvIDs == <<"c1", "c2", "c3", "c4", "c5", "c6">>

PendingKeys == {"pending_switch_to_user_id", "pending_switch_key_type",
                "pending_switch_key_value"}

NoUser == [ID |-> "", AnonymousID |-> <<>>, Name |-> <<>>, Email |-> <<>>,
           Phone |-> <<>>, IdentityTier |-> 0, IdentityStatus |-> "",
           ConfidenceScore |-> 0, PrimaryIdentifier |-> <<>>]

NoSession == [nil |-> TRUE, SessionID |-> <<>>, UserID |-> "", Metadata |-> EmptyMap]

NoConv == [ID |-> "", UserID |-> "", Status |-> "", SummaryLen |-> 0,
           LastIntent |-> "", Channel |-> "", SessionID |-> <<>>, Facts |-> EmptyMap]

\* the locals of Router.Handle and of the functions it calls
IdleTask ==
    [pc |-> "idle", in |-> NoInbound, env |-> EnvOK,
     session |-> NoSession, user |-> NoUser, first |-> FALSE, created |-> FALSE,
     pendingID |-> "", answer |-> "", switchedTo |-> "",
     idFacts |-> EmptyMap, candidates |-> <<>>,
     ci |-> 0, found |-> "", interrupt |-> <<>>,
     conv |-> NoConv, recent |-> <<>>, facts |-> EmptyMap, convFacts |-> EmptyMap,
     intent |-> "", reply |-> <<>>, extractorErr |-> "", calls |-> <<>>,
     convID |-> "", err |-> ""]

DB == [app_users |-> app_users, user_sessions |-> user_sessions,
       identity_keys |-> identity_keys, conversations |-> conversations,
       messages |-> messages, events |-> events,
       idempotency_keys |-> idempotency_keys]

\* SupabaseClient.InsertEvent; the callers drop its error
InsertEvent(db, userID, eventType) ==
    [db EXCEPT !.events = Append(@, [user_id |-> userID, event_type |-> eventType])]

\* SupabaseClient.PatchUserSession: PATCH of the rows with this session id
PatchUserSession(db, sid, patch) ==
    IF sid \notin DOMAIN db.user_sessions THEN db
    ELSE [db EXCEPT !.user_sessions[sid] =
            [k \in DOMAIN @ |-> IF k \in DOMAIN patch THEN patch[k] ELSE @[k]]]

\* SupabaseClient.UpsertUserSession: POST with resolution=merge-duplicates
UpsertUserSession(db, sid, userID, channel, metadata) ==
    [db EXCEPT !.user_sessions =
        [k \in (DOMAIN @) \cup {sid} |->
            IF k = sid
            THEN [user_id |-> userID, channel |-> channel, metadata |-> metadata]
            ELSE @[k]]]

\* SupabaseClient.LookupIdentityKey: the owner, "" when there is no row
LookupIdentityKey(db, keyType, keyValue) ==
    LET rows == {r \in db.identity_keys : r.key_type = keyType /\ r.key_value = keyValue}
    IN  IF rows = {} THEN [nil |-> TRUE, UserID |-> ""]
        ELSE [nil |-> FALSE, UserID |-> (CHOOSE r \in rows : TRUE).user_id]

\* SupabaseClient.InsertIdentityKey: POST with resolution=ignore-duplicates
InsertIdentityKey(db, userID, keyType, keyValue) ==
    IF \E r \in db.identity_keys : r.key_type = keyType /\ r.key_value = keyValue
    THEN db
    ELSE [db EXCEPT !.identity_keys =
            @ \cup {[key_type |-> keyType, key_value |-> keyValue, user_id |-> userID]}]

\* SupabaseClient.UpdateAppUser: PATCH of the row with this id
UpdateAppUser(db, userID, patch) ==
    IF userID \notin DOMAIN db.app_users THEN db
    ELSE [db EXCEPT !.app_users[userID] =
            [k \in DOMAIN @ |-> IF k \in DOMAIN patch THEN patch[k] ELSE @[k]]]

\* SupabaseClient.InsertMessage; the callers drop its error
InsertMessage(db, convID, role, content) ==
    [db EXCEPT !.messages =
        Append(@, [conversation_id |-> convID, role |-> role, content |-> content])]

\* SupabaseClient.UpdateConversation: PATCH of the row with this id
UpdateConversation(db, convID, patch) ==
    [db EXCEPT !.conversations =
        [i \in DOMAIN @ |->
            IF @[i].ID = convID
            THEN [k \in DOMAIN @[i] |-> IF k \in DOMAIN patch THEN patch[k] ELSE @[i][k]]
            ELSE @[i]]]

\* ------------------------------------------------------------------------
\* identity resolution (src/identity.go)
\* ------------------------------------------------------------------------

\* buildIdentityCandidates with a fault: the phone number comes first
buildIdentityCandidatesPhoneFirst(facts) ==
    (IF Get(facts, "phone") # <<>>
     THEN <<[KeyType |-> "phone", KeyValue |-> normalizePhone(Get(facts, "phone"))]>> ELSE <<>>)
    \o
    (IF Get(facts, "email") # <<>>
     THEN <<[KeyType |-> "email", KeyValue |-> ToLower(Get(facts, "email"))]>> ELSE <<>>)

buildIdentityCandidates(facts) ==
    (IF Get(facts, "email") # <<>>
     THEN <<[KeyType |-> "email", KeyValue |-> ToLower(Get(facts, "email"))]>> ELSE <<>>)
    \o
    (IF Get(facts, "phone") # <<>>
     THEN <<[KeyType |-> "phone", KeyValue |-> normalizePhone(Get(facts, "phone"))]>> ELSE <<>>)

\* deriveIdentityState with a fault: an anonymous user keeps the bare session
\* id that CreateAnonymousUser gave it
deriveIdentityStateBareSession(user, sessionID) ==
    LET hasName == TrimSpace(user.Name) # <<>>
        hasContact == TrimSpace(user.Email) # <<>> \/ TrimSpace(user.Phone) # <<>>
    IN  IF hasContact
        THEN [tier |-> 2, status |-> "identified", confidence |-> 80,
              primary |-> IF user.Email # <<>> THEN ToLower(user.Email)
                          ELSE normalizePhone(user.Phone)]
        ELSE IF hasName
        THEN [tier |-> 1, status |-> "named", confidence |-> 50, primary |-> user.Name]
        ELSE [tier |-> 0, status |-> "anonymous", confidence |-> 20, primary |-> sessionID]

\* tier, status, confidence and primary identifier of a user
deriveIdentityState(user, sessionID) ==
    LET hasName == TrimSpace(user.Name) # <<>>
        hasContact == TrimSpace(user.Email) # <<>> \/ TrimSpace(user.Phone) # <<>>
    IN  IF hasContact
        THEN [tier |-> 2, status |-> "identified", confidence |-> 80,
              primary |-> IF user.Email # <<>> THEN ToLower(user.Email)
                          ELSE normalizePhone(user.Phone)]
        ELSE IF hasName
        THEN [tier |-> 1, status |-> "named", confidence |-> 50, primary |-> user.Name]
        ELSE [tier |-> 0, status |-> "anonymous", confidence |-> 20,
              primary |-> <<"session:">> \o sessionID]

\* the facts resolveIdentity works with: extractFacts of a router with no
\* language model
IdentityFacts(in) == extractFacts(in, "nil", EnvOK).facts

ConfirmTokens == {<<"s", "w", "i", "t", "c", "h">>, <<"y", "e", "s">>,
                  <<"c", "o", "n", "f", "i", "r", "m">>,
                  <<"u", "s", "e", " ", "t", "h", "a", "t", " ", "a", "c", "c", "o", "u", "n", "t">>}
DeclineTokens == {<<"g", "u", "e", "s", "t">>, <<"n", "o">>, <<"s", "t", "a", "y">>,
                  <<"c", "o", "n", "t", "i", "n", "u", "e">>}

\* handlePendingSwitch's reading of the message: "confirm", "decline" or "other"
SwitchAnswer(text) ==
    LET t == TrimSpace(ToLower(text))
    IN  IF t \in ConfirmTokens THEN "confirm"
        ELSE IF t \in DeclineTokens THEN "decline"
        ELSE "other"

PendingID(metadata) ==
    IF "pending_switch_to_user_id" \in DOMAIN metadata
    THEN metadata["pending_switch_to_user_id"] ELSE ""

\* ------------------------------------------------------------------------
\* Router.Handle, one store round trip per step.  Every step maps the store
\* and the task's locals to the store and locals after it; l.pc names the
\* next round trip.
\* ------------------------------------------------------------------------

Fail(db, l, why) == [db |-> db, l |-> [l EXCEPT !.pc = "done", !.err = why]]

\* where resolveIdentity goes after candidate ci
AfterCandidate(l) ==
    IF l.ci < Len(l.candidates) THEN [l EXCEPT !.pc = "lookup_key", !.ci = @ + 1]
    ELSE [l EXCEPT !.pc = "update_user"]

\* resolveIdentity once the pending switch is dealt with: the facts of the
\* message and the candidates built from them
WithCandidates(l, facts) ==
    [l EXCEPT !.idFacts = facts,
              !.candidates = buildIdentityCandidates(facts),
              !.ci = 1,
              !.pc = IF Len(buildIdentityCandidates(facts)) > 0 THEN "lookup_key"
                     ELSE "update_user"]

ToCandidates(l) == WithCandidates(l, IdentityFacts(l.in))

\* IdempotencyGet with a fault: the duplicate delivery is recorded as an event
IdempotencyGetLogging(db, l) ==
    IF l.in.WhatsAppMsgID \in db.idempotency_keys
    THEN [db |-> InsertEvent(db, "", "message.duplicate"),
          l |-> [l EXCEPT !.pc = "done", !.answer = "duplicate", !.intent = IntentOther,
                          !.reply = DuplicateReply, !.convID = "", !.facts = EmptyMap]]
    ELSE [db |-> db, l |-> [l EXCEPT !.pc = "idem_post"]]

\* UpsertIdempotency, its GET: a stored key ends the turn with the duplicate reply
IdempotencyGet(db, l) ==
    IF l.in.WhatsAppMsgID \in db.idempotency_keys
    THEN [db |-> db,
          l |-> [l EXCEPT !.pc = "done", !.answer = "duplicate", !.intent = IntentOther,
                          !.reply = DuplicateReply, !.convID = "", !.facts = EmptyMap]]
    ELSE [db |-> db, l |-> [l EXCEPT !.pc = "idem_post"]]

\* IdempotencyPost with a fault: the key is not stored
IdempotencyPostForgetful(db, l) ==
    [db |-> db, l |-> [l EXCEPT !.pc = "get_session"]]

\* UpsertIdempotency, its POST: the key column is unique, a second insert of
\* the same key is refused and the refusal is returned as the turn's error
IdempotencyPost(db, l) ==
    IF l.in.WhatsAppMsgID \in db.idempotency_keys
    THEN Fail(db, l, "supabase insert idempotency_keys (409)")
    ELSE [db |-> [db EXCEPT !.idempotency_keys = @ \cup {l.in.WhatsAppMsgID}],
          l |-> [l EXCEPT !.pc = "get_session"]]

\* resolveIdentity: sb.GetUserSession
GetUserSession(db, l) ==
    IF l.in.SessionID \in DOMAIN db.user_sessions
    THEN LET row == db.user_sessions[l.in.SessionID]
         IN  [db |-> db,
              l |-> [l EXCEPT !.pc = "get_user",
                              !.session = [nil |-> FALSE, SessionID |-> l.in.SessionID,
                                           UserID |-> row.user_id,
                                           Metadata |-> row.metadata]]]
    ELSE [db |-> db,
          l |-> [l EXCEPT !.pc = "create_user", !.session = NoSession, !.first = TRUE]]

\* CreateAnonymousUser with a fault: a refused insert is returned as an error
CreateAnonymousUserRefused(db, l) ==
    LET sid == l.in.SessionID
        id == UserIDs[Cardinality(DOMAIN db.app_users) + 1]
        row == [NoUser EXCEPT !.ID = id, !.AnonymousID = sid,
                    !.IdentityTier = 0, !.IdentityStatus = "anonymous",
                    !.ConfidenceScore = 20, !.PrimaryIdentifier = sid]
    IN  IF \E u \in DOMAIN db.app_users : db.app_users[u].AnonymousID = sid
        THEN Fail(db, l, "supabase insert app_users (409)")
        ELSE [db |-> [db EXCEPT !.app_users =
                        [u \in (DOMAIN @) \cup {id} |-> IF u = id THEN row ELSE @[u]]],
              l |-> [l EXCEPT !.pc = "upsert_session", !.user = row, !.created = TRUE]]

\* SupabaseClient.CreateAnonymousUser: anonymous_id is unique; a refused insert
\* falls back to the row that holds the anonymous id
CreateAnonymousUser(db, l) ==
    LET sid == l.in.SessionID
        holders == {u \in DOMAIN db.app_users : db.app_users[u].AnonymousID = sid}
    IN  IF holders # {}
        THEN LET row == db.app_users[CHOOSE u \in holders : TRUE]
             IN  [db |-> db,
                  l |-> [l EXCEPT !.pc = "upsert_session",
                                  !.user = [NoUser EXCEPT !.ID = row.ID,
                                                !.AnonymousID = row.AnonymousID,
                                                !.Name = row.Name, !.Email = row.Email,
                                                !.Phone = row.Phone]]]
        ELSE LET id == UserIDs[Cardinality(DOMAIN db.app_users) + 1]
                 row == [NoUser EXCEPT !.ID = id, !.AnonymousID = sid,
                             !.IdentityTier = 0, !.IdentityStatus = "anonymous",
                             !.ConfidenceScore = 20, !.PrimaryIdentifier = sid]
             IN  [db |-> [db EXCEPT !.app_users =
                            [u \in (DOMAIN @) \cup {id} |-> IF u = id THEN row ELSE @[u]]],
                  l |-> [l EXCEPT !.pc = "upsert_session", !.user = row, !.created = TRUE]]

\* UpsertNewSession with a fault: the session row is not written
UpsertNewSessionSkipped(db, l) ==
    [db |-> db,
     l |-> [l EXCEPT !.pc = "pending_switch",
                     !.session = [nil |-> FALSE, SessionID |-> l.in.SessionID,
                                  UserID |-> l.user.ID, Metadata |-> EmptyMap]]]

\* resolveIdentity: the session row of a first contact
UpsertNewSession(db, l) ==
    [db |-> UpsertUserSession(db, l.in.SessionID, l.user.ID, l.in.Channel, EmptyMap),
     l |-> [l EXCEPT !.pc = "pending_switch",
                     !.session = [nil |-> FALSE, SessionID |-> l.in.SessionID,
                                  UserID |-> l.user.ID, Metadata |-> EmptyMap]]]

\* SupabaseClient.GetAppUserByID
GetAppUserByID(db, l, userID, next) ==
    IF userID \notin DOMAIN db.app_users THEN Fail(db, l, "app_user not found")
    ELSE [db |-> db, l |-> [l EXCEPT !.pc = next, !.user = db.app_users[userID]]]

\* handlePendingSwitch, a confirm token: the session is rebound to the pending
\* user and the pending keys leave its metadata
ConfirmSwitch(db, l, pendingID, cleared) ==
    [db |-> InsertEvent(
                PatchUserSession(db, l.in.SessionID,
                                 [user_id |-> pendingID, metadata |-> cleared]),
                pendingID, "identity.switch_confirmed"),
     l |-> [l EXCEPT !.pc = "get_switched", !.pendingID = pendingID,
                     !.answer = "confirm", !.switchedTo = pendingID,
                     !.session.Metadata = cleared]]

\* DeclineSwitch with a fault: a decline token is handled as a confirm token
DeclineSwitchRebinding(db, l, pendingID, cleared) ==
    ConfirmSwitch(db, l, pendingID, cleared)

\* handlePendingSwitch, a decline token: the pending keys leave the metadata
DeclineSwitch(db, l, pendingID, cleared) ==
    [db |-> InsertEvent(
                PatchUserSession(db, l.in.SessionID, [metadata |-> cleared]),
                l.user.ID, "identity.switch_declined"),
     l |-> [ToCandidates(l) EXCEPT !.pendingID = pendingID, !.answer = "decline",
                                   !.session.Metadata = cleared]]

\* RepeatPrompt with a fault: the pending keys are dropped with the prompt
RepeatPromptClearing(db, l, pendingID) ==
    [db |-> PatchUserSession(db, l.in.SessionID,
                             [metadata |-> Drop(l.session.Metadata, PendingKeys)]),
     l |-> [l EXCEPT !.pc = "get_conv", !.pendingID = pendingID,
                     !.answer = "other", !.interrupt = identityConflictReply]]

\* handlePendingSwitch, any other text: the prompt again, nothing written
RepeatPrompt(db, l, pendingID) ==
    [db |-> db,
     l |-> [l EXCEPT !.pc = "get_conv", !.pendingID = pendingID,
                     !.answer = "other", !.interrupt = identityConflictReply]]

\* handlePendingSwitch
handlePendingSwitch(db, l) ==
    LET pendingID == PendingID(l.session.Metadata)
        answer == SwitchAnswer(l.in.UserText)
        cleared == Drop(l.session.Metadata, PendingKeys)
    IN  IF pendingID = "" THEN [db |-> db, l |-> ToCandidates(l)]
        ELSE IF answer = "confirm" THEN ConfirmSwitch(db, l, pendingID, cleared)
        ELSE IF answer = "decline" THEN DeclineSwitch(db, l, pendingID, cleared)
        ELSE RepeatPrompt(db, l, pendingID)

\* resolveIdentity after a confirmed switch: load the target, use it from here on
GetSwitchedUser(db, l) ==
    LET r == GetAppUserByID(db, l, l.switchedTo, "x")
    IN  IF r.l.err # "" THEN r
        ELSE [db |-> db, l |-> [ToCandidates(r.l) EXCEPT !.session.UserID = l.switchedTo]]

\* LookupCandidate with a fault: a key owned by another user is passed over
LookupCandidateMerging(db, l) ==
    IF LookupIdentityKey(db, l.candidates[l.ci].KeyType, l.candidates[l.ci].KeyValue).nil
    THEN [db |-> db, l |-> [l EXCEPT !.pc = "insert_key"]]
    ELSE [db |-> db, l |-> AfterCandidate(l)]

\* resolveIdentity: sb.LookupIdentityKey for candidate ci
LookupCandidate(db, l) ==
    LET c == l.candidates[l.ci]
        found == LookupIdentityKey(db, c.KeyType, c.KeyValue)
    IN  IF ~found.nil /\ found.UserID # "" /\ found.UserID # l.user.ID
        THEN [db |-> db, l |-> [l EXCEPT !.pc = "raise_conflict", !.found = found.UserID]]
        ELSE IF found.nil
        THEN [db |-> db, l |-> [l EXCEPT !.pc = "insert_key"]]
        ELSE [db |-> db, l |-> AfterCandidate(l)]

\* RaiseConflict with a fault: the session is rebound to the key's owner at once
RaiseConflictRebinding(db, l) ==
    [db |-> InsertEvent(PatchUserSession(db, l.in.SessionID, [user_id |-> l.found]),
                        l.user.ID, "identity.conflict"),
     l |-> [l EXCEPT !.pc = "get_conv", !.interrupt = identityConflictReply]]

\* RaiseConflict with a fault: only the target user is stored
RaiseConflictTargetOnly(db, l) ==
    [db |-> InsertEvent(
                PatchUserSession(db, l.in.SessionID,
                    [metadata |-> Put(l.session.Metadata, "pending_switch_to_user_id",
                                      l.found)]),
                l.user.ID, "identity.conflict"),
     l |-> [l EXCEPT !.pc = "get_conv", !.interrupt = identityConflictReply]]

\* resolveIdentity: a key owned by another user becomes the pending switch
RaiseConflict(db, l) ==
    LET c == l.candidates[l.ci]
        meta == [k \in (DOMAIN l.session.Metadata) \cup PendingKeys |->
                    CASE k = "pending_switch_to_user_id" -> l.found
                      [] k = "pending_switch_key_type" -> c.KeyType
                      [] k = "pending_switch_key_value" -> c.KeyValue
                      [] OTHER -> l.session.Metadata[k]]
    IN  [db |-> InsertEvent(PatchUserSession(db, l.in.SessionID, [metadata |-> meta]),
                            l.user.ID, "identity.conflict"),
         l |-> [l EXCEPT !.pc = "get_conv", !.interrupt = identityConflictReply]]

\* AddIdentityKey with a fault: no event is emitted
AddIdentityKeySilent(db, l) ==
    LET c == l.candidates[l.ci]
    IN  [db |-> InsertIdentityKey(db, l.user.ID, c.KeyType, c.KeyValue),
         l |-> AfterCandidate(l)]

\* resolveIdentity: an unowned key is inserted for the current user
AddIdentityKey(db, l) ==
    LET c == l.candidates[l.ci]
    IN  [db |-> InsertEvent(InsertIdentityKey(db, l.user.ID, c.KeyType, c.KeyValue),
                            l.user.ID, "identity.key_added"),
         l |-> AfterCandidate(l)]

\* PatchedUser with a fault: the name is taken from the message, also when the
\* message gives none
PatchedUserClearing(user, facts) ==
    [user EXCEPT
        !.Email = IF user.Email = <<>> /\ Get(facts, "email") # <<>>
                  THEN Get(facts, "email") ELSE @,
        !.Phone = IF user.Phone = <<>> /\ Get(facts, "phone") # <<>>
                  THEN Get(facts, "phone") ELSE @,
        !.Name = Get(facts, "name")]

\* resolveIdentity: fill the empty name, email, phone and derive the tier
PatchedUser(user, facts) ==
    [user EXCEPT
        !.Email = IF user.Email = <<>> /\ Get(facts, "email") # <<>>
                  THEN Get(facts, "email") ELSE @,
        !.Phone = IF user.Phone = <<>> /\ Get(facts, "phone") # <<>>
                  THEN Get(facts, "phone") ELSE @,
        !.Name = IF user.Name = <<>> /\ Get(facts, "name") # <<>>
                 THEN Get(facts, "name") ELSE @]

UpdateUser(db, l) ==
    LET u == PatchedUser(l.user, l.idFacts)
        st == deriveIdentityState(u, l.in.SessionID)
        set == {"IdentityTier", "IdentityStatus", "ConfidenceScore", "PrimaryIdentifier"}
               \cup (IF u.Email # l.user.Email THEN {"Email"} ELSE {})
               \cup (IF u.Phone # l.user.Phone THEN {"Phone"} ELSE {})
               \cup (IF u.Name # l.user.Name THEN {"Name"} ELSE {})
        new == [u EXCEPT !.IdentityTier = st.tier, !.IdentityStatus = st.status,
                         !.ConfidenceScore = st.confidence,
                         !.PrimaryIdentifier = st.primary]
        patch == [k \in set |-> new[k]]
    IN  [db |-> UpdateAppUser(db, l.user.ID, patch),
         l |-> [l EXCEPT !.pc = "write_session", !.user = new]]

\* resolveIdentity: the closing session upsert and the resolved event
WriteSession(db, l) ==
    [db |-> InsertEvent(
                UpsertUserSession(db, l.in.SessionID, l.user.ID, l.in.Channel,
                                  l.session.Metadata),
                l.user.ID, "identity.resolved"),
     l |-> [l EXCEPT !.pc = "get_conv"]]

\* ------------------------------------------------------------------------
\* conversation, routing and persistence (Router.Handle after the identity)
\* ------------------------------------------------------------------------

\* evaluated once per text
TextIntent == [t \in UserTexts |-> classifyIntent(t)]

\* GetOrCreateOpenConversation, its GET: the user's open conversation (the
\* newest row when there are several)
GetOpenConversation(db, l) ==
    LET open == {i \in DOMAIN db.conversations :
                    /\ db.conversations[i].UserID = l.user.ID
                    /\ db.conversations[i].Status = "open"}
    IN  IF open = {} THEN [db |-> db, l |-> [l EXCEPT !.pc = "create_conv"]]
        ELSE [db |-> db,
              l |-> [l EXCEPT !.pc = "insert_user_msg",
                              !.conv = db.conversations[MaxOf(open)]]]

\* GetOrCreateOpenConversation, its POST
CreateConversation(db, l) ==
    LET row == [NoConv EXCEPT !.ID = ConvIDs[Len(db.conversations) + 1],
                              !.UserID = l.user.ID, !.Status = "open",
                              !.Channel = l.in.Channel, !.SessionID = l.in.SessionID]
    IN  [db |-> [db EXCEPT !.conversations = Append(@, row)],
         l |-> [l EXCEPT !.pc = "insert_user_msg", !.conv = row]]

\* InsertUserMessage with a fault: the message is not stored at this point
InsertUserMessageLate(db, l) ==
    [db |-> db,
     l |-> [l EXCEPT !.pc = IF l.interrupt # <<>> THEN "insert_interrupt"
                            ELSE "fetch_recent"]]

\* Router.Handle: the user's message is stored first
InsertUserMessage(db, l) ==
    [db |-> InsertMessage(db, l.conv.ID, "user", l.in.UserText),
     l |-> [l EXCEPT !.pc = IF l.interrupt # <<>> THEN "insert_interrupt"
                            ELSE "fetch_recent"]]

\* InsertInterrupt with a fault: the interrupt is stored like a routed reply,
\* with the conversation's last intent
InsertInterruptRouted(db, l) ==
    [db |-> UpdateConversation(InsertMessage(db, l.conv.ID, "assistant", l.interrupt),
                               l.conv.ID, [LastIntent |-> IntentOther]),
     l |-> [l EXCEPT !.pc = "done", !.intent = IntentOther, !.reply = l.interrupt,
                     !.convID = l.conv.ID, !.facts = EmptyMap]]

\* Router.Handle: an identity interrupt is stored and ends the turn
InsertInterrupt(db, l) ==
    [db |-> InsertMessage(db, l.conv.ID, "assistant", l.interrupt),
     l |-> [l EXCEPT !.pc = "done", !.intent = IntentOther, !.reply = l.interrupt,
                     !.convID = l.conv.ID, !.facts = EmptyMap]]

HistoryWindow == 10

\* SupabaseClient.FetchRecentMessages: the newest HistoryWindow rows of the
\* conversation, oldest first; a refused read is returned as the turn's error
FetchRecentMessages(db, l) ==
    LET mine == SelectSeq(db.messages, LAMBDA m : m.conversation_id = l.conv.ID)
        from == IF Len(mine) > HistoryWindow THEN Len(mine) - HistoryWindow + 1 ELSE 1
    IN  IF l.env.history_err THEN Fail(db, l, "supabase select messages (500)")
        ELSE [db |-> db,
              l |-> [l EXCEPT !.pc = "route",
                              !.recent = [i \in 1..(Len(mine) - from + 1) |->
                                             [Role |-> mine[from + i - 1].role,
                                              Content |-> mine[from + i - 1].content]]]]

\* Router.llmReply: one chat call; an error becomes the fixed apology
llmReply(env) ==
    [reply |-> IF env.chat_err THEN LLMErrorReply ELSE LLMReply,
     err |-> FALSE, calls |-> <<"llm.chat">>]

\* Router.executeToolsIfNeeded: the first integration the tool plan names
executeToolsIfNeeded(spec, facts, env) ==
    IF spec.ToolPlan.NeedsShopifyLookup
    THEN [reply |-> IF env.tool = "ok" THEN OrderFoundReply ELSE OrderNotFoundReply,
          err |-> env.tool = "err", calls |-> <<"shopify.lookup_order">>]
    ELSE IF spec.ToolPlan.NeedsZohoCRM
    THEN [reply |-> CRMSavedReply, err |-> env.tool = "err", calls |-> <<"zoho_crm.upsert">>]
    ELSE IF spec.ToolPlan.NeedsZohoDesk
    THEN IF env.tool = "err"
         THEN [reply |-> <<>>, err |-> TRUE, calls |-> <<"zoho_desk.ensure_contact">>]
         ELSE [reply |-> TicketCapturedReply, err |-> FALSE,
               calls |-> <<"zoho_desk.ensure_contact", "zoho_desk.create_ticket">>]
    ELSE IF spec.ToolPlan.NeedsBrevoEmail
    THEN IF Get(facts, "email") = <<>>
         THEN [reply |-> <<>>, err |-> TRUE, calls |-> <<>>]
         ELSE [reply |-> BrevoSentReply, err |-> env.tool = "err",
               calls |-> <<"brevo.send">>]
    ELSE llmReply(env)

\* MergeFacts with a fault: the conversation's facts are not carried over
MergeFactsForgetting(convFacts, facts) ==
    [k \in {x \in DOMAIN facts : facts[x] # <<>>} |-> facts[k]]

\* the turn's facts merged into the conversation's facts
MergeFacts(convFacts, facts) ==
    LET set == {k \in DOMAIN facts : facts[k] # <<>>}
    IN  [k \in (DOMAIN convFacts) \cup set |-> IF k \in set THEN facts[k] ELSE convFacts[k]]

\* ToolOrFallback with a fault: the integration's error is the reply
ToolOrFallbackLeaking(tool, env) ==
    IF tool.err
    THEN [reply |-> <<"integration error">>, calls |-> tool.calls]
    ELSE [reply |-> tool.reply, calls |-> tool.calls]

\* Router.Handle step 8: the tool plan's reply, the language model's when the
\* integration fails
ToolOrFallback(tool, env) ==
    IF tool.err
    THEN [reply |-> llmReply(env).reply, calls |-> tool.calls \o llmReply(env).calls]
    ELSE [reply |-> tool.reply, calls |-> tool.calls]

\* Gate with a fault: the tool plan runs although fields are missing
GateOpen(spec, missing, convFacts, env) ==
    ToolOrFallback(executeToolsIfNeeded(spec, convFacts, env), env)

\* Router.Handle step 7: the slot-filling gate asks, or lets the tool plan run
Gate(spec, missing, convFacts, env) ==
    IF Len(missing) > 0
    THEN [reply |-> askForMissing(spec, missing), calls |-> <<>>]
    ELSE ToolOrFallback(executeToolsIfNeeded(spec, convFacts, env), env)

\* Router.Handle: an intent without a routing-table entry is handled as "other"
RoutedIntent(classified) ==
    IF classified \in DOMAIN RoutingTable THEN classified ELSE IntentOther

\* Routed with a fault: the turn returns the merged facts as its own
RoutedMerged(l, ex, intent, convFacts, out) ==
    [l EXCEPT !.pc = "insert_reply", !.facts = convFacts, !.extractorErr = ex.err,
              !.intent = intent, !.convFacts = convFacts, !.reply = out.reply,
              !.calls = <<"llm.extract">> \o out.calls]

Routed(l, ex, intent, convFacts, out) ==
    [l EXCEPT !.pc = "insert_reply", !.facts = ex.facts, !.extractorErr = ex.err,
              !.intent = intent, !.convFacts = convFacts, !.reply = out.reply,
              !.calls = <<"llm.extract">> \o out.calls]

RouteWith(l, ex, intent, convFacts) ==
    Routed(l, ex, intent, convFacts,
           Gate(RoutingTable[intent],
                missingFields(RoutingTable[intent], convFacts, l.in),
                convFacts, l.env))

\* RouteFrom with a fault: a text without a keyword continues the
\* conversation's last intent
RouteFromLastIntent(l, ex) ==
    RouteWith(l, ex,
              IF TextIntent[l.in.UserText] = IntentOther /\ l.conv.LastIntent \in DOMAIN RoutingTable
              THEN l.conv.LastIntent
              ELSE RoutedIntent(TextIntent[l.in.UserText]),
              MergeFacts(l.conv.Facts, ex.facts))

\* Router.Handle steps 4 to 8: extraction, classification, merge, the
\* slot-filling gate and the tool plan; no store access
RouteFrom(l, ex) ==
    RouteWith(l, ex, RoutedIntent(TextIntent[l.in.UserText]),
              MergeFacts(l.conv.Facts, ex.facts))

Route(db, l) == [db |-> db, l |-> RouteFrom(l, extractFacts(l.in, "llm", l.env))]

\* persistAssistant: the reply is stored as a message
InsertReply(db, l) ==
    [db |-> InsertMessage(db, l.conv.ID, "assistant", l.reply),
     l |-> [l EXCEPT !.pc = "update_conv"]]

\* PersistConversation with a fault: only the facts of this turn are stored
PersistConversationFresh(db, l) ==
    [db |-> UpdateConversation(db, l.conv.ID,
                [LastIntent |-> l.intent,
                 SummaryLen |-> NewSummaryLen(l.conv.SummaryLen, l.reply),
                 Facts |-> [k \in {x \in DOMAIN l.facts : l.facts[x] # <<>>} |-> l.facts[k]]]),
     l |-> [l EXCEPT !.pc = "done", !.convID = l.conv.ID]]

\* persistAssistant: last intent, rolling summary and facts of the conversation
PersistConversation(db, l) ==
    [db |-> UpdateConversation(db, l.conv.ID,
                [LastIntent |-> l.intent,
                 SummaryLen |-> NewSummaryLen(l.conv.SummaryLen, l.reply),
                 Facts |-> [k \in {x \in DOMAIN l.convFacts : l.convFacts[x] # <<>>} |->
                               l.convFacts[k]]]),
     l |-> [l EXCEPT !.pc = "done", !.convID = l.conv.ID]]

\* the step of Router.Handle that l.pc names
HandleStep(db, l) ==
    CASE l.pc = "idem_get" -> IdempotencyGet(db, l)
      [] l.pc = "idem_post" -> IdempotencyPost(db, l)
      [] l.pc = "get_session" -> GetUserSession(db, l)
      [] l.pc = "create_user" -> CreateAnonymousUser(db, l)
      [] l.pc = "upsert_session" -> UpsertNewSession(db, l)
      [] l.pc = "get_user" -> GetAppUserByID(db, l, l.session.UserID, "pending_switch")
      [] l.pc = "pending_switch" -> handlePendingSwitch(db, l)
      [] l.pc = "get_switched" -> GetSwitchedUser(db, l)
      [] l.pc = "lookup_key" -> LookupCandidate(db, l)
      [] l.pc = "raise_conflict" -> RaiseConflict(db, l)
      [] l.pc = "insert_key" -> AddIdentityKey(db, l)
      [] l.pc = "update_user" -> UpdateUser(db, l)
      [] l.pc = "write_session" -> WriteSession(db, l)
      [] l.pc = "get_conv" -> GetOpenConversation(db, l)
      [] l.pc = "create_conv" -> CreateConversation(db, l)
      [] l.pc = "insert_user_msg" -> InsertUserMessage(db, l)
      [] l.pc = "insert_interrupt" -> InsertInterrupt(db, l)
      [] l.pc = "fetch_recent" -> FetchRecentMessages(db, l)
      [] l.pc = "route" -> Route(db, l)
      [] l.pc = "insert_reply" -> InsertReply(db, l)
      [] l.pc = "update_conv" -> PersistConversation(db, l)

\* the locals of a call of Router.Handle at its first round trip
EnterHandle(in, env) ==
    [IdleTask EXCEPT !.in = in, !.env = env,
                     !.pc = IF in.WhatsAppMsgID # "" THEN "idem_get" ELSE "get_session"]

\* Router.Handle from its first round trip to its return
RECURSIVE RunHandle(_, _)
RunHandle(db, l) ==
    IF l.pc = "done" THEN [db |-> db, l |-> l]
    ELSE LET r == HandleStep(db, l) IN RunHandle(r.db, r.l)

\* ------------------------------------------------------------------------
\* specifications
\* ------------------------------------------------------------------------

\* ------------------------------------------------------------------------
\* the language-model client (OpenAIClient.createResponse)
\* ------------------------------------------------------------------------

NoRequest == [pc |-> "idle", attempt |-> 0, MaxOutputTokens |-> 0, sent |-> <<>>,
              got |-> 0, text |-> <<>>, err |-> ""]

ContentFilterReply ==
    <<"I can't help with that request as written. Please rephrase and avoid sharing sensitive personal details.">>

\* what the API can answer to one request: a transport failure, a non-2xx
\* status, an unreadable body, an error object, or a response body with its
\* status, its incomplete reason, the text of its output items and the text
\* the raw-body fallback finds
NoBody == [status |-> "", reason |-> "", text |-> <<>>, fallback |-> <<>>]
ApiAnswers ==
    {[kind |-> k, body |-> NoBody] : k \in {"transport", "http", "parse", "error"}}
    \cup {[kind |-> "ok", body |-> [status |-> "completed", reason |-> "", text |-> t,
                                     fallback |-> f]] :
              t \in {<<>>, <<"answer">>}, f \in {<<>>, <<"raw answer">>}}
    \cup {[kind |-> "ok", body |-> [status |-> "incomplete", reason |-> r, text |-> t,
                                     fallback |-> f]] :
              r \in {"", "max_output_tokens", "content_filter", "other"},
              t \in {<<>>, <<"answer">>}, f \in {<<>>, <<"raw answer">>}}

\* the budgets the callers send: Chat's OPENAI_MAX_OUTPUT_TOKENS (a positive
\* integer, 180 unless set) and the rewrite's 90
TokenBudgets == {90, 180, 360, 500, 600, 700, 1200, 1500}

RetryCap == 1200
DefaultBudget == 180

\* the call ends with a text or with an error
Returned(req, text, err) ==
    [req EXCEPT !.pc = "done", !.got = @ + 1, !.text = text, !.err = err]

\* the retry: the budget doubled, at most RetryCap, and the request sent again
WidenAndRetry(req) ==
    LET b == IF req.MaxOutputTokens <= 0 THEN DefaultBudget ELSE req.MaxOutputTokens
        wider == IF b * 2 < RetryCap THEN b * 2 ELSE RetryCap
    IN  [req EXCEPT !.attempt = @ + 1, !.got = @ + 1, !.MaxOutputTokens = wider,
                    !.sent = Append(@, wider)]

\* WidenAndRetry's guard with a fault: a retry is retried
MayRetryAlways(req, body) ==
    body.status = "incomplete"

\* the guard of the retry block
MayRetry(req, body) ==
    body.status = "incomplete" /\ req.attempt = 0

\* createResponseWithRetry from the API's answer on
createResponseWithRetry(req, a) ==
    IF a.kind = "transport" THEN Returned(req, <<>>, "transport error")
    ELSE IF a.kind = "http" THEN Returned(req, <<>>, "openai responses api error")
    ELSE IF a.kind = "parse" THEN Returned(req, <<>>, "openai parse error")
    ELSE IF a.kind = "error" THEN Returned(req, <<>>, "openai error")
    ELSE IF a.body.text # <<>> THEN Returned(req, a.body.text, "")
    ELSE IF a.body.fallback # <<>> THEN Returned(req, a.body.fallback, "")
    ELSE IF MayRetry(req, a.body) /\ a.body.reason \in {"max_output_tokens", ""}
    THEN WidenAndRetry(req)
    ELSE IF MayRetry(req, a.body) /\ a.body.reason = "content_filter"
    THEN Returned(req, ContentFilterReply, "")
    ELSE IF a.body.status = "incomplete"
    THEN Returned(req, <<>>, "openai: no text found in response (status=incomplete)")
    ELSE Returned(req, <<>>, "openai: no text found in response (status=completed)")

\* ------------------------------------------------------------------------
\* the runtime configuration and /v1/config (src/main.go)
\* ------------------------------------------------------------------------

Servers == {1, 2}

\* RuntimeConfig as the package initialises it
InitialConfig ==
    [PreferredModel |-> <<"gpt-5-mini">>, OpenAIAPIKey |-> <<>>, SupabaseURL |-> <<>>,
     SupabaseServiceRole |-> <<>>]

\* a server before main has loaded the secrets
InitialServer == [pc |-> "start", cfg |-> InitialConfig]

NoResponse == [status |-> 0, body |-> EmptyMap]

\* the values an environment variable can have: unset or empty, blank, a
\* value, a value with blanks around it
EnvValues == {<<>>, <<" ">>, <<"k", "1">>, <<" ", "k", "2", " ">>}

Environments ==
    [SUPABASE_URL : EnvValues, SUPABASE_SERVICE_ROLE : EnvValues,
     SUPABASE_SERVICE_ROLE_KEY : EnvValues, OPENAI_API_KEY : EnvValues]

\* firstNonEmptyEnv: the first value that is not blank, as it is
firstNonEmptyEnv(values) ==
    IF \E i \in DOMAIN values : TrimSpace(values[i]) # <<>>
    THEN values[MinOf({i \in DOMAIN values : TrimSpace(values[i]) # <<>>})]
    ELSE <<>>

loadSecretsFromEnv(c, env) ==
    [c EXCEPT !.SupabaseURL = TrimSpace(env.SUPABASE_URL),
              !.SupabaseServiceRole =
                  firstNonEmptyEnv(<<env.SUPABASE_SERVICE_ROLE, env.SUPABASE_SERVICE_ROLE_KEY>>),
              !.OpenAIAPIKey = TrimSpace(env.OPENAI_API_KEY),
              !.PreferredModel = IF c.PreferredModel = <<>> THEN <<"gpt-5-mini">>
                                 ELSE c.PreferredModel]

\* maskConfig with a fault: the key is reported after the model name
maskConfigLeaking(c) ==
    [preferred_model |-> c.PreferredModel \o c.OpenAIAPIKey,
     has_openai_key |-> TrimSpace(c.OpenAIAPIKey) # <<>>,
     has_supabase_url |-> TrimSpace(c.SupabaseURL) # <<>>,
     has_supabase_service_role |-> TrimSpace(c.SupabaseServiceRole) # <<>>]

maskConfig(c) ==
    [preferred_model |-> c.PreferredModel,
     has_openai_key |-> TrimSpace(c.OpenAIAPIKey) # <<>>,
     has_supabase_url |-> TrimSpace(c.SupabaseURL) # <<>>,
     has_supabase_service_role |-> TrimSpace(c.SupabaseServiceRole) # <<>>]

\* configHandler: the configuration after the request, and the response
ConfigAfter(c, method, preferred) ==
    IF method = "POST" /\ TrimSpace(preferred) # <<>>
    THEN [c EXCEPT !.PreferredModel = TrimSpace(preferred)] ELSE c

ConfigResponse(c, method, preferred) ==
    IF method # "POST"
    THEN [status |-> 405, body |-> [detail |-> "method not allowed"]]
    ELSE [status |-> 200,
          body |-> [ok |-> TRUE, config |-> maskConfig(ConfigAfter(c, method, preferred))]]

\* no function has been called
NoCall == [fn |-> "none"]

Init ==
    /\ app_users = [u \in {} |-> NoUser]
    /\ user_sessions = [s \in {} |-> NoSession]
    /\ identity_keys = {}
    /\ conversations = <<>>
    /\ messages = <<>>
    /\ events = <<>>
    /\ idempotency_keys = {}
    /\ task = [t \in Tasks |-> IdleTask]
    /\ turns = 0
    /\ request = NoRequest
    /\ cfg = [i \in Servers |-> InitialServer]
    /\ response = [i \in Servers |-> NoResponse]
    /\ call = NoCall

Store(db) ==
    /\ app_users' = db.app_users
    /\ user_sessions' = db.user_sessions
    /\ identity_keys' = db.identity_keys
    /\ conversations' = db.conversations
    /\ messages' = db.messages
    /\ events' = db.events
    /\ idempotency_keys' = db.idempotency_keys

\* one message handled from receipt to reply, no other message in between
Handle(in, env) ==
    /\ turns < MaxTurns
    /\ \E r \in {RunHandle(DB, EnterHandle(in, env))} :
           /\ Store(r.db)
           /\ task' = [task EXCEPT ![1] = r.l]
    /\ turns' = turns + 1
    /\ UNCHANGED clientVars

Next == \E x \in TurnInputs : Handle(x.in, x.env)

Spec == Init /\ [][Next]_vars

\* ------------------------------------------------------------------------
\* properties of a message handled alone.  A step of Spec is one call of
\* Router.Handle: the unprimed store is the store before the call, task'[1]
\* holds the locals the call returned with
\* ------------------------------------------------------------------------

Turn == task'[1]
LastTurn == task[1]
TurnSession == Turn.in.SessionID

\* the delivery carries a message id that is already stored
Redelivery ==
    Turn.in.WhatsAppMsgID # "" /\ Turn.in.WhatsAppMsgID \in idempotency_keys

\* the user the session is bound to before the call, "" for a new session key
BoundBefore ==
    IF TurnSession \in DOMAIN user_sessions THEN user_sessions[TurnSession].user_id ELSE ""

\* the pending switch target before the call, "" when none is pending
PendingBefore ==
    IF TurnSession \in DOMAIN user_sessions
    THEN PendingID(user_sessions[TurnSession].metadata) ELSE ""

\* the normalized email of the message, <<>> when it holds none
MessageEmail == ToLower(normalizeEmail(TextFacts[Turn.in.UserText].email))

EmailRows(keys) == {r \in keys : r.key_type = "email" /\ r.key_value = MessageEmail}

EmailOwnedByOther ==
    /\ MessageEmail # <<>>
    /\ \E r \in EmailRows(identity_keys) : r.user_id # BoundBefore

HasPendingKeys(sid) == DOMAIN user_sessions[sid].metadata \cap PendingKeys # {}

HasEvent(userID, eventType) ==
    \E i \in DOMAIN events : events[i] = [user_id |-> userID, event_type |-> eventType]

\* the messages a call appended
NewMessages == SubSeq(messages', Len(messages) + 1, Len(messages'))

\* C1: a message on a session with no pending switch whose email is an identity
\* key of another user is answered with the conflict prompt, and the call
\* neither inserts or changes an identity key for that email nor patches a user
ConflictLeavesIdentityAlone ==
    [][ (~Redelivery /\ PendingBefore = "" /\ EmailOwnedByOther) =>
            /\ Turn.reply = identityConflictReply
            /\ EmailRows(identity_keys') = EmailRows(identity_keys)
            /\ \A u \in DOMAIN app_users : app_users'[u] = app_users[u] ]_vars

\* a call that met an email owned by another user with no switch pending
ConflictRaisedOnEmail ==
    /\ LastTurn.pc = "done"
    /\ LastTurn.pendingID = ""
    /\ LastTurn.found # ""
    /\ LastTurn.ci = 1
    /\ Len(LastTurn.candidates) >= 1
    /\ LastTurn.candidates[1].KeyType = "email"
    /\ LastTurn.reply = identityConflictReply

\* C2: the user a session is bound to changes only in a call that finds a
\* pending switch and reads a confirm token, and then to the pending target
BindingChangesOnlyOnConfirm ==
    [][ \A s \in DOMAIN user_sessions :
            /\ s \in DOMAIN user_sessions'
            /\ (user_sessions'[s].user_id # user_sessions[s].user_id =>
                    /\ s = TurnSession
                    /\ PendingBefore # ""
                    /\ SwitchAnswer(Turn.in.UserText) = "confirm"
                    /\ user_sessions'[s].user_id = PendingBefore) ]_vars

\* a session bound to a user it was not created for, after a confirmed switch
SessionRebound ==
    /\ LastTurn.pc = "done"
    /\ LastTurn.answer = "confirm"
    /\ LastTurn.pendingID # ""
    /\ user_sessions[LastTurn.in.SessionID].user_id = LastTurn.pendingID
    /\ app_users[LastTurn.pendingID].AnonymousID # LastTurn.in.SessionID

\* C3: after a call that found a pending switch to T and read a confirm token
\* the session is bound to T, its metadata holds no pending key, a
\* switch_confirmed event exists and the call went on as T without interrupt
ConfirmedSwitchCompletes ==
    (LastTurn.pc = "done" /\ LastTurn.answer = "confirm") =>
        /\ user_sessions[LastTurn.in.SessionID].user_id = LastTurn.pendingID
        /\ ~HasPendingKeys(LastTurn.in.SessionID)
        /\ HasEvent(LastTurn.pendingID, "identity.switch_confirmed")
        /\ LastTurn.user.ID = LastTurn.pendingID
        /\ LastTurn.interrupt = <<>>

\* C4: after a call that found a pending switch and read a decline token the
\* session is bound to the user it was bound to, its metadata holds no pending
\* key, a switch_declined event exists and the call returned no interrupt
DeclinedSwitchStays ==
    (LastTurn.pc = "done" /\ LastTurn.answer = "decline") =>
        /\ user_sessions[LastTurn.in.SessionID].user_id = LastTurn.session.UserID
        /\ ~HasPendingKeys(LastTurn.in.SessionID)
        /\ HasEvent(LastTurn.session.UserID, "identity.switch_declined")
        /\ LastTurn.interrupt = <<>>

\* C5: a call that finds a pending switch and reads neither a confirm nor a
\* decline token answers with the conflict prompt and leaves every session
\* row (binding and pending keys), identity key and user as it was
UnrecognisedAnswerRepeatsPrompt ==
    [][ (~Redelivery /\ PendingBefore # "" /\ SwitchAnswer(Turn.in.UserText) = "other") =>
            /\ Turn.reply = identityConflictReply
            /\ user_sessions' = user_sessions
            /\ identity_keys' = identity_keys
            /\ app_users' = app_users ]_vars

\* a call that repeated the prompt, the switch still pending after it
PromptRepeated ==
    /\ LastTurn.pc = "done"
    /\ LastTurn.answer = "other"
    /\ LastTurn.pendingID # ""
    /\ LastTurn.reply = identityConflictReply
    /\ PendingID(user_sessions[LastTurn.in.SessionID].metadata) = LastTurn.pendingID

\* C6: the first message of a session key that has no session row adds exactly
\* one user, created at tier 0, and exactly one session row, bound to that user
FirstContactCreatesOneUser ==
    [][ (~Redelivery /\ TurnSession \notin DOMAIN user_sessions) =>
            \E u \in DOMAIN app_users' :
                /\ u \notin DOMAIN app_users
                /\ DOMAIN app_users' = DOMAIN app_users \cup {u}
                /\ CreateAnonymousUser(DB, EnterHandle(Turn.in, Turn.env)).db.app_users[u].IdentityTier = 0
                /\ DOMAIN user_sessions' = DOMAIN user_sessions \cup {TurnSession}
                /\ user_sessions'[TurnSession].user_id = u
                /\ Turn.user.ID = u ]_vars

\* a first contact: the user was created in the call and the session is its
FirstContactHandled ==
    /\ LastTurn.pc = "done"
    /\ LastTurn.created
    /\ LastTurn.in.SessionID \in DOMAIN user_sessions
    /\ user_sessions[LastTurn.in.SessionID].user_id = LastTurn.user.ID
    /\ app_users[LastTurn.user.ID].AnonymousID = LastTurn.in.SessionID

\* C7 as the specification states it: the message handled right after the
\* first message of a session key resolves to the user the first one resolved
\* to, and adds no user
SecondMessageSameUser ==
    [][ (/\ LastTurn.pc = "done"
         /\ LastTurn.created
         /\ TurnSession = LastTurn.in.SessionID
         /\ ~Redelivery) =>
            /\ Turn.user.ID = LastTurn.user.ID
            /\ DOMAIN app_users' = DOMAIN app_users ]_vars

\* C7, amended: a message on a session key that has a session row adds no user
\* and resolves to the user the session is bound to, except that a confirm
\* token answering a pending switch resolves to the pending target
ReturningResolvesBoundUser ==
    [][ (~Redelivery /\ TurnSession \in DOMAIN user_sessions) =>
            /\ DOMAIN app_users' = DOMAIN app_users
            /\ Turn.user.ID =
                  IF PendingBefore # "" /\ SwitchAnswer(Turn.in.UserText) = "confirm"
                  THEN PendingBefore ELSE BoundBefore ]_vars

\* a later message of a session, resolved to the user the session is bound to
ReturningVisitorResolved ==
    /\ LastTurn.pc = "done"
    /\ ~LastTurn.created
    /\ LastTurn.answer \notin {"confirm", "duplicate"}
    /\ LastTurn.user.ID # ""
    /\ LastTurn.user.ID = user_sessions[LastTurn.in.SessionID].user_id
    /\ app_users[LastTurn.user.ID].AnonymousID = LastTurn.in.SessionID

\* C8: a delivery whose message id is stored is answered with the duplicate
\* reply and stores no message; a delivery whose message id is new stores the
\* id and exactly one user message, the delivered text
RedeliveryAnsweredOnce ==
    [][ Turn.in.WhatsAppMsgID # "" =>
            IF Turn.in.WhatsAppMsgID \in idempotency_keys
            THEN Turn.reply = DuplicateReply /\ messages' = messages
            ELSE /\ Turn.in.WhatsAppMsgID \in idempotency_keys'
                 /\ messages' = messages \o NewMessages
                 /\ \E i \in DOMAIN NewMessages :
                        /\ NewMessages[i].role = "user"
                        /\ NewMessages[i].content = Turn.in.UserText
                        /\ \A j \in DOMAIN NewMessages :
                               NewMessages[j].role = "user" => j = i ]_vars

\* a second delivery answered as a duplicate, its text stored once
SecondDeliveryAnswered ==
    /\ LastTurn.pc = "done"
    /\ LastTurn.answer = "duplicate"
    /\ LastTurn.reply = DuplicateReply
    /\ Cardinality({i \in DOMAIN messages :
                       /\ messages[i].role = "user"
                       /\ messages[i].content = LastTurn.in.UserText}) = 1

\* C9: a delivery whose message id is stored changes no table and calls
\* neither the language model nor an integration
RedeliveryWritesNothing ==
    [][ Redelivery =>
            /\ UNCHANGED <<app_users, user_sessions, identity_keys, conversations,
                           messages, events, idempotency_keys>>
            /\ Turn.calls = <<>> ]_vars

\* a duplicate delivery that returned without a call, the store not empty
DuplicateReturnedEarly ==
    /\ LastTurn.pc = "done"
    /\ LastTurn.answer = "duplicate"
    /\ LastTurn.calls = <<>>
    /\ LastTurn.convID = ""
    /\ Len(events) > 0
    /\ LastTurn.in.WhatsAppMsgID \in idempotency_keys

\* C17: a turn with an identity interrupt stores exactly the user's message
\* and the interrupt reply and returns: no conversation row that existed is
\* changed (summary, last intent, facts), a row the turn created holds none of
\* them, no language model or integration is called and the result carries
\* empty facts.
InterruptTurnOnlyStoresMessages ==
    [][ Turn.interrupt # <<>> =>
            /\ messages' = messages \o NewMessages
            /\ NewMessages =
                  <<[conversation_id |-> Turn.conv.ID, role |-> "user",
                     content |-> Turn.in.UserText],
                    [conversation_id |-> Turn.conv.ID, role |-> "assistant",
                     content |-> Turn.interrupt]>>
            /\ Turn.reply = Turn.interrupt
            /\ \A i \in DOMAIN conversations : conversations'[i] = conversations[i]
            /\ \A i \in (DOMAIN conversations') \ (DOMAIN conversations) :
                  /\ conversations'[i].SummaryLen = 0
                  /\ conversations'[i].LastIntent = ""
                  /\ conversations'[i].Facts = EmptyMap
            /\ Turn.calls = <<>>
            /\ Turn.facts = EmptyMap
            /\ Turn.intent = IntentOther ]_vars

\* an interrupt was answered on a conversation that already had a summary
InterruptOnSummarisedConversation ==
    /\ LastTurn.pc = "done"
    /\ LastTurn.interrupt # <<>>
    /\ LastTurn.conv.SummaryLen > 0
    /\ \E i \in DOMAIN conversations : conversations[i] = LastTurn.conv
    /\ messages[Len(messages)].content = LastTurn.interrupt

\* C21 as stated: the conversation of a turn is the resolved user's open
\* conversation for the inbound's channel, and a user never has two open
\* conversations on one channel.
ConversationOfUserAndChannel ==
    /\ (LastTurn.pc = "done" /\ LastTurn.conv.ID # "") =>
          /\ LastTurn.conv.UserID = LastTurn.user.ID
          /\ LastTurn.conv.Status = "open"
          /\ LastTurn.conv.Channel = LastTurn.in.Channel
    /\ \A i, j \in DOMAIN conversations :
          (/\ conversations[i].UserID = conversations[j].UserID
           /\ conversations[i].Channel = conversations[j].Channel
           /\ conversations[i].Status = "open"
           /\ conversations[j].Status = "open") => i = j

\* ------------------------------------------------------------------------
\* concurrent deliveries: every task is one worker's call of Router.Handle,
\* the store is the only thing they share and a round trip is atomic
\* ------------------------------------------------------------------------

MaxConcTurns == 2

ConcInputs ==
    {[in |-> i, env |-> EnvOK] : i \in {x \in Inbounds : x.UserText \in {TxtHello, TxtEmail}}}

\* a worker receives a message
Begin(t, in, env) ==
    /\ turns < MaxConcTurns
    /\ task[t].pc \in {"idle", "done"}
    /\ task' = [task EXCEPT ![t] = EnterHandle(in, env)]
    /\ turns' = turns + 1
    /\ UNCHANGED <<app_users, user_sessions, identity_keys, conversations, messages,
                   events, idempotency_keys>>
    /\ UNCHANGED clientVars

\* a worker makes its next round trip
Step(t) ==
    /\ task[t].pc \notin {"idle", "done"}
    /\ \E r \in {HandleStep(DB, task[t])} :
           /\ Store(r.db)
           /\ task' = [task EXCEPT ![t] = r.l]
    /\ UNCHANGED turns
    /\ UNCHANGED clientVars

NextConc ==
    \E t \in Tasks :
        \/ \E x \in ConcInputs : Begin(t, x.in, x.env)
        \/ Step(t)

SpecConc == Init /\ [][NextConc]_vars

\* the deliveries of two workers that have both returned carry one message id
SameDelivery(t, u) ==
    /\ t # u
    /\ task[t].pc = "done"
    /\ task[u].pc = "done"
    /\ task[t].in.WhatsAppMsgID # ""
    /\ task[t].in.WhatsAppMsgID = task[u].in.WhatsAppMsgID

\* C10: of two deliveries of one message id handled by two workers neither
\* returns an error, one is processed and the other gets the duplicate reply
ConcurrentRedeliveryDeduplicated ==
    \A t \in Tasks : \A u \in Tasks :
        SameDelivery(t, u) =>
            /\ task[t].err = ""
            /\ task[u].err = ""
            /\ (task[t].answer = "duplicate") # (task[u].answer = "duplicate")

\* the identity keys that hold the email or the phone of this user row
KeysOf(user) ==
    {r \in identity_keys :
        \/ r.key_type = "email" /\ user.Email # <<>> /\ r.key_value = ToLower(user.Email)
        \/ r.key_type = "phone" /\ user.Phone # <<>>
              /\ r.key_value = normalizePhone(user.Phone)}

\* the identity keys that the message of this call supplies
KeysSupplied(l) ==
    {r \in identity_keys :
        \E i \in DOMAIN buildIdentityCandidates(extractFacts(l.in, "nil", l.env).facts) :
            LET c == buildIdentityCandidates(extractFacts(l.in, "nil", l.env).facts)[i]
            IN  r.key_type = c.KeyType /\ r.key_value = c.KeyValue}

\* C11 as stated: under any interleaving, a call whose message supplies a key
\* owned by another user has raised the conflict (prompt and pending switch),
\* and no call ends with an email or phone on its user's row whose identity
\* key is owned by another user.
ClaimedKeyAlwaysConflicts ==
    \A t \in Tasks :
        (task[t].pc = "done" /\ task[t].err = "" /\ task[t].answer # "duplicate") =>
            /\ (\E r \in KeysSupplied(task[t]) : r.user_id # task[t].user.ID) =>
                  /\ task[t].interrupt = identityConflictReply
                  /\ HasPendingKeys(task[t].in.SessionID)
            /\ \A r \in KeysOf(app_users[task[t].user.ID]) : r.user_id = task[t].user.ID

\* two calls that both found no session row for one session key have returned
ConcurrentFirstContact(t, u) ==
    /\ t # u
    /\ task[t].pc = "done"
    /\ task[u].pc = "done"
    /\ task[t].first
    /\ task[u].first
    /\ task[t].in.SessionID = task[u].in.SessionID

\* C12: two concurrent first messages of one new session key both succeed and
\* resolve to one user: one app_users row holds the session key as anonymous
\* id, and the one session row binds the key to that user.
ConcurrentFirstContactSharesUser ==
    \A t, u \in Tasks :
        ConcurrentFirstContact(t, u) =>
            /\ task[t].err = ""
            /\ task[u].err = ""
            /\ task[t].user.ID = task[u].user.ID
            /\ Cardinality({x \in DOMAIN app_users :
                               app_users[x].AnonymousID = task[t].in.SessionID}) = 1
            /\ task[t].in.SessionID \in DOMAIN user_sessions
            /\ user_sessions[task[t].in.SessionID].user_id = task[t].user.ID

\* both calls of a concurrent first contact have returned, one of them having
\* created the user
ConcurrentFirstContactReturned ==
    \E t, u \in Tasks :
        /\ ConcurrentFirstContact(t, u)
        /\ task[t].created
        /\ ~task[u].created
        /\ task[u].user.ID = task[t].user.ID

\* ------------------------------------------------------------------------
\* routing: one worker, one round trip per step, the messages of the web chat
\* that reach the routing table's intents
\* ------------------------------------------------------------------------

MaxRouteTurns == 3

WebInbound(t) ==
    [Channel |-> "web", SessionID |-> WebSession, UserText |-> t,
     WhatsAppMsgID |-> "", WhatsAppFrom |-> <<>>]

WaInbound(t) ==
    [Channel |-> "whatsapp_meta", SessionID |-> WaSession, UserText |-> t,
     WhatsAppMsgID |-> WaMsgID[t], WhatsAppFrom |-> WaPhone]

RouteInputs ==
    {[in |-> WebInbound(t), env |-> EnvOK] : t \in RouteTexts \cup {TxtEmail}}
    \cup {[in |-> WebInbound(t), env |-> EnvToolDown] : t \in {TxtTrack, TxtCallMe, TxtDamaged}}
    \cup {[in |-> WebInbound(TxtRefund), env |-> EnvExtracted],
          [in |-> WebInbound(TxtWhere), env |-> EnvExtracted],
          [in |-> WaInbound(TxtEmail), env |-> EnvDown],
          [in |-> WaInbound(TxtHello), env |-> EnvExtractedEmail],
          [in |-> [WebInbound(TxtBoth) EXCEPT !.SessionID = OtherWebSession], env |-> EnvOK],
          [in |-> WebInbound(TxtName), env |-> EnvOK],
          [in |-> WebInbound(TxtTrack), env |-> EnvDown],
          [in |-> WebInbound(TxtWhere), env |-> EnvNoHistory]}

\* the /chat handler's answer to a call of Router.Handle that has returned
chatResponse(l) ==
    IF l.err # ""
    THEN [status |-> 500, error |-> l.err, intent |-> "", reply |-> <<>>]
    ELSE [status |-> 200, error |-> "", intent |-> l.intent, reply |-> l.reply]

\* the worker receives a message
Receive(in, env) ==
    /\ turns < MaxRouteTurns
    /\ task[1].pc \in {"idle", "done"}
    /\ task' = [task EXCEPT ![1] = EnterHandle(in, env)]
    /\ turns' = turns + 1
    /\ UNCHANGED <<app_users, user_sessions, identity_keys, conversations, messages,
                   events, idempotency_keys>>
    /\ UNCHANGED clientVars

\* the worker makes its next round trip
Advance ==
    /\ task[1].pc \notin {"idle", "done"}
    /\ \E r \in {HandleStep(DB, task[1])} :
           /\ Store(r.db)
           /\ task' = [task EXCEPT ![1] = r.l]
    /\ UNCHANGED turns
    /\ UNCHANGED clientVars

NextRoute ==
    \/ \E x \in RouteInputs : Receive(x.in, x.env)
    \/ Advance

SpecRoute == Init /\ [][NextRoute]_vars


\* ------------------------------------------------------------------------
\* routing claims, on the turns of SpecRoute
\* ------------------------------------------------------------------------

Range(seq) == {seq[i] : i \in DOMAIN seq}

\* the conversation row with this id, as stored
ConvRow(convs, id) == convs[CHOOSE i \in DOMAIN convs : convs[i].ID = id]

\* the integration behind a collaborator call; the language model is none
IntegrationOf(c) ==
    CASE c = "shopify.lookup_order" -> "shopify"
      [] c = "zoho_crm.upsert" -> "zoho_crm"
      [] c \in {"zoho_desk.ensure_contact", "zoho_desk.create_ticket"} -> "zoho_desk"
      [] c = "brevo.send" -> "brevo"
      [] OTHER -> ""

Integrations(calls) == {IntegrationOf(calls[i]) : i \in DOMAIN calls} \ {""}

\* the integration a tool plan names first
PlannedIntegration(plan) ==
    IF plan.NeedsShopifyLookup THEN "shopify"
    ELSE IF plan.NeedsZohoCRM THEN "zoho_crm"
    ELSE IF plan.NeedsZohoDesk THEN "zoho_desk"
    ELSE IF plan.NeedsBrevoEmail THEN "brevo"
    ELSE ""

\* the last call went through extraction, classification and the gate
RoutedTurn ==
    /\ LastTurn.pc = "done"
    /\ LastTurn.err = ""
    /\ LastTurn.interrupt = <<>>
    /\ LastTurn.answer # "duplicate"
    /\ LastTurn.conv.ID # ""

OrderQuestion == RoutingTable["order_status"].ClarifyQuestions[1]

\* none of the order-status fields is known to the turn
NoOrderFieldKnown(l) ==
    /\ \A k \in {"order_id", "email", "phone"} : Get(l.convFacts, k) = <<>>
    /\ l.in.WhatsAppFrom = <<>>

\* the turn before this one, on the same conversation, asked the order question
AskedBefore(l) ==
    /\ Len(l.recent) >= 2
    /\ l.recent[Len(l.recent) - 1] = [Role |-> "assistant", Content |-> OrderQuestion]

\* C13: an order-status turn that knows none of order_id, email and phone
\* replies with the clarifying question, calls no integration and stores the
\* merged facts; when the next turn on that conversation supplies an order_id
\* the order-status requirement is met (an order-status turn goes on to the
\* order lookup) and the facts stored by the asking turn are still stored.
OrderStatusAsksThenProceeds ==
    RoutedTurn =>
        /\ (LastTurn.intent = "order_status" /\ NoOrderFieldKnown(LastTurn)) =>
              /\ LastTurn.reply = OrderQuestion
              /\ Integrations(LastTurn.calls) = {}
              /\ \A k \in DOMAIN LastTurn.convFacts :
                    LastTurn.convFacts[k] # <<>> =>
                        Get(ConvRow(conversations, LastTurn.conv.ID).Facts, k)
                            = LastTurn.convFacts[k]
        /\ (AskedBefore(LastTurn) /\ Get(LastTurn.facts, "order_id") # <<>>) =>
              /\ missingFields(RoutingTable["order_status"], LastTurn.convFacts,
                               LastTurn.in) = <<>>
              /\ LastTurn.intent = "order_status" =>
                    /\ LastTurn.reply # OrderQuestion
                    /\ Integrations(LastTurn.calls) = {"shopify"}
              /\ \A k \in DOMAIN LastTurn.conv.Facts :
                    Get(ConvRow(conversations, LastTurn.conv.ID).Facts, k)
                        = IF Get(LastTurn.facts, k) # <<>> THEN LastTurn.facts[k]
                          ELSE LastTurn.conv.Facts[k]

\* the question was asked with an extracted item on record, and the next turn
\* gave the order id: the lookup ran and the item is still stored
OrderIdSuppliedAfterQuestion ==
    /\ RoutedTurn
    /\ AskedBefore(LastTurn)
    /\ LastTurn.intent = "order_status"
    /\ Get(LastTurn.facts, "order_id") # <<>>
    /\ Get(LastTurn.conv.Facts, "item") # <<>>
    /\ Get(ConvRow(conversations, LastTurn.conv.ID).Facts, "item") # <<>>
    /\ "shopify.lookup_order" \in Range(LastTurn.calls)

\* the generic request for these fields, as askForMissing words it
GenericRequest(missing) ==
    CASE Len(missing) = 1 -> <<"I need a bit more info: ", missing[1]>>
      [] Len(missing) = 2 -> <<"I need a bit more info: ", missing[1], ", ", missing[2]>>
      [] Len(missing) = 3 -> <<"I need a bit more info: ", missing[1], ", ", missing[2],
                               ", ", missing[3]>>

\* C14: when required fields are unmet after the merge, the reply is exactly
\* the intent's first clarifying question and no integration is called; for
\* an intent without clarifying questions the reply is the generic text that
\* lists the missing fields, joined by commas.
MissingFieldsAskOneQuestion ==
    RoutedTurn =>
        \A missing \in {missingFields(RoutingTable[LastTurn.intent], LastTurn.convFacts,
                                      LastTurn.in)} :
            Len(missing) > 0 =>
                /\ LastTurn.reply = RoutingTable[LastTurn.intent].ClarifyQuestions[1]
                /\ Integrations(LastTurn.calls) = {}
                /\ askForMissing([RoutingTable[LastTurn.intent]
                                     EXCEPT !.ClarifyQuestions = <<>>], missing)
                       = GenericRequest(missing)

\* a refund turn asked its question with two fields missing
RefundQuestionAsked ==
    /\ RoutedTurn
    /\ LastTurn.intent = "return_refund"
    /\ Len(missingFields(RoutingTable["return_refund"], LastTurn.convFacts,
                         LastTurn.in)) = 2
    /\ LastTurn.reply = RoutingTable["return_refund"].ClarifyQuestions[1]

\* C15: a turn calls at most one integration, the one its tool plan names;
\* when that integration fails the turn still returns, without error, the
\* language model's reply (its apology when the model fails too).
OneIntegrationWithFallback ==
    RoutedTurn =>
        /\ Cardinality(Integrations(LastTurn.calls)) <= 1
        /\ Integrations(LastTurn.calls)
              \subseteq {PlannedIntegration(RoutingTable[LastTurn.intent].ToolPlan)}
        /\ (Integrations(LastTurn.calls) # {} /\ LastTurn.env.tool = "err") =>
              /\ LastTurn.calls[Len(LastTurn.calls)] = "llm.chat"
              /\ LastTurn.reply \in {LLMReply, LLMErrorReply}
              /\ chatResponse(LastTurn).status = 200

\* the helpdesk failed and the language model answered
FailedTicketAnsweredByModel ==
    /\ RoutedTurn
    /\ LastTurn.env.tool = "err"
    /\ Integrations(LastTurn.calls) = {"zoho_desk"}
    /\ LastTurn.reply = LLMReply

\* C16 as stated: every inbound gets a reply, and a failure on the critical
\* path reaches the user as a generic apology, never as the diagnostic text.
EveryInboundAnswered ==
    LastTurn.pc = "done" =>
        /\ chatResponse(LastTurn).reply # <<>>
        /\ chatResponse(LastTurn).error = ""

\* the user's message is the row stored k rows before the end
UserRowAt(k) ==
    /\ Len(messages) > k
    /\ messages[Len(messages) - k] =
          [conversation_id |-> LastTurn.conv.ID, role |-> "user",
           content |-> LastTurn.in.UserText]

\* C18: once a turn is past the insertion of the user's message (history
\* load, extraction and classification, any call of the language model or an
\* integration, the reply's storage) the message is stored, and it stays
\* stored when one of those later steps fails.
UserMessageStoredFirst ==
    /\ LastTurn.pc \in {"insert_interrupt", "fetch_recent", "route", "insert_reply"}
          => UserRowAt(0)
    /\ LastTurn.pc = "update_conv" => UserRowAt(1)
    /\ LastTurn.calls # <<>> => UserRowAt(0) \/ UserRowAt(1)
    /\ (LastTurn.pc = "done" /\ LastTurn.conv.ID # "") =>
          IF LastTurn.err # "" THEN UserRowAt(0) ELSE UserRowAt(1)

\* the history read failed and the user's message is the last row stored
MessageKeptAfterFailedHistory ==
    /\ LastTurn.pc = "done"
    /\ LastTurn.err # ""
    /\ LastTurn.conv.ID # ""
    /\ UserRowAt(0)

\* C20 as stated: "Hi, my order 12345 is late, email is a@B.com" from a new
\* session yields the facts order_id 12345 and email a@b.com, the intent
\* order_status, a user patched to tier 2 / identified and an order lookup.
LateOrderLookedUp ==
    (LastTurn.pc = "done" /\ LastTurn.first /\ LastTurn.in.UserText = TxtLate) =>
        /\ Get(LastTurn.facts, "order_id") = <<"1", "2", "3", "4", "5">>
        /\ normalizeEmail(Get(LastTurn.facts, "email")) = <<"a", "@", "b", ".", "c", "o", "m">>
        /\ app_users[LastTurn.user.ID].IdentityTier = 2
        /\ app_users[LastTurn.user.ID].IdentityStatus = "identified"
        /\ LastTurn.intent = "order_status"
        /\ "shopify.lookup_order" \in Range(LastTurn.calls)


\* C22: when the language-model extractor fails the turn goes on: its facts
\* are the deterministic results (channel phone and pattern recognizers), the
\* failure reason is in the result's extractor-error string; the string is
\* empty when the extractor succeeds.
ExtractorFailureKeepsDeterministicFacts ==
    RoutedTurn =>
        IF LastTurn.env.extract_err
        THEN /\ LastTurn.facts = DeterministicFacts(LastTurn.in, TextFacts[LastTurn.in.UserText])
             /\ LastTurn.extractorErr # ""
             /\ chatResponse(LastTurn).status = 200
             /\ LastTurn.reply # <<>>
        ELSE LastTurn.extractorErr = ""

\* a message with an email arrived from a channel address while the extractor
\* was down, and the turn returned both facts
ChannelPhoneAndEmailKept ==
    /\ RoutedTurn
    /\ LastTurn.env.extract_err
    /\ LastTurn.extractorErr # ""
    /\ LastTurn.facts = [phone |-> WaPhone,
                         email |-> <<"a", "@", "b", ".", "c", "o", "m">>]

\* C24 as stated: the intent returned by the turn and stored as the
\* conversation's last intent is the one the keyword classifier selected for
\* the text, comparison and pricing_availability included.
ClassifiedIntentReturned ==
    RoutedTurn =>
        /\ LastTurn.intent = classifyIntent(LastTurn.in.UserText)
        /\ ConvRow(conversations, LastTurn.conv.ID).LastIntent
              = classifyIntent(LastTurn.in.UserText)

ContactKey(k, value) ==
    [KeyType |-> k, KeyValue |-> IF k = "email" THEN ToLower(value) ELSE normalizePhone(value)]

\* C27 as stated: every email or phone a turn returns in its facts and merges
\* into the conversation's facts was a candidate looked up in that turn, and
\* its identity key is not owned by another user.
ReturnedContactsWereLookedUp ==
    RoutedTurn =>
        \A k \in {"email", "phone"} :
            Get(LastTurn.facts, k) # <<>> =>
                /\ ContactKey(k, LastTurn.facts[k]) \in Range(LastTurn.candidates)
                /\ \A r \in identity_keys :
                      (/\ r.key_type = k
                       /\ r.key_value = ContactKey(k, LastTurn.facts[k]).KeyValue)
                          => r.user_id = LastTurn.user.ID

\* the candidate the resolver is at, and the owners of its identity key
Candidate == LastTurn.candidates[LastTurn.ci]
CandidateOwners ==
    {r.user_id : r \in {x \in identity_keys : /\ x.key_type = Candidate.KeyType
                                              /\ x.key_value = Candidate.KeyValue}}

\* C28: a candidate without an identity key gets one, owned by the current
\* user, and a key_added event is emitted; for a candidate whose key the
\* current user owns nothing is written.
CandidateInsertedOrLeftAlone ==
    [][ /\ LastTurn.pc = "lookup_key" =>
              /\ UNCHANGED <<app_users, user_sessions, identity_keys, conversations,
                             messages, events, idempotency_keys>>
              /\ CandidateOwners = {} => Turn.pc = "insert_key"
              /\ CandidateOwners = {LastTurn.user.ID} =>
                    /\ Turn.pc \in {"lookup_key", "update_user"}
                    /\ Turn.ci = IF Turn.pc = "lookup_key" THEN LastTurn.ci + 1
                                 ELSE LastTurn.ci
        /\ LastTurn.pc = "insert_key" =>
              /\ CandidateOwners = {}
              /\ identity_keys' = identity_keys \cup
                    {[key_type |-> Candidate.KeyType, key_value |-> Candidate.KeyValue,
                      user_id |-> LastTurn.user.ID]}
              /\ events' = Append(events, [user_id |-> LastTurn.user.ID,
                                           event_type |-> "identity.key_added"])
              /\ UNCHANGED <<app_users, user_sessions, conversations, messages,
                             idempotency_keys>> ]_vars

\* the email of an earlier message was a candidate again and every candidate
\* was passed without a new key or event
OwnKeyPassedOver ==
    /\ LastTurn.pc = "update_user"
    /\ LastTurn.candidates # <<>>
    /\ \E i \in DOMAIN messages : messages[i].content = LastTurn.in.UserText
    /\ \A i \in DOMAIN LastTurn.candidates :
          \E r \in identity_keys : /\ r.key_type = LastTurn.candidates[i].KeyType
                                   /\ r.key_value = LastTurn.candidates[i].KeyValue
                                   /\ r.user_id = LastTurn.user.ID
    /\ Cardinality({i \in DOMAIN events : events[i].event_type = "identity.key_added"})
          = Cardinality(identity_keys)

\* the owners of the identity key of the turn's i-th candidate
OwnersOf(i) ==
    {r.user_id : r \in {x \in identity_keys :
                          /\ x.key_type = LastTurn.candidates[i].KeyType
                          /\ x.key_value = LastTurn.candidates[i].KeyValue}}

\* C29: the candidates are examined in order, the email before the phone; the
\* first one owned by another user is stored with its owner as the session's
\* pending switch, a conflict event is emitted and no later candidate is looked
\* up or inserted in the call, so that of two keys of two other users the
\* email's owner becomes the pending target.
FirstForeignCandidateEndsResolution ==
    [][ /\ (Turn.pc = "lookup_key" /\ LastTurn.pc \notin {"lookup_key", "insert_key"}) =>
              /\ Turn.ci = 1
              /\ \A i \in DOMAIN Turn.candidates :
                    Turn.candidates[i].KeyType = "email" => i = 1
        /\ (Turn.pc = "lookup_key" /\ LastTurn.pc \in {"lookup_key", "insert_key"}) =>
              Turn.ci = LastTurn.ci + 1
        /\ (LastTurn.pc = "lookup_key" /\ CandidateOwners \ {"", LastTurn.user.ID} # {}) =>
              /\ Turn.pc = "raise_conflict"
              /\ Turn.ci = LastTurn.ci
              /\ Turn.found \in CandidateOwners
        /\ LastTurn.pc = "raise_conflict" =>
              /\ \A i \in 1..(LastTurn.ci - 1) : OwnersOf(i) \subseteq {LastTurn.user.ID}
              /\ LastTurn.found \in CandidateOwners \ {LastTurn.user.ID}
              /\ LET meta == user_sessions'[LastTurn.in.SessionID].metadata
                 IN  /\ PendingKeys \subseteq DOMAIN meta
                     /\ meta["pending_switch_to_user_id"] = LastTurn.found
                     /\ meta["pending_switch_key_type"] = Candidate.KeyType
                     /\ meta["pending_switch_key_value"] = Candidate.KeyValue
              /\ events' = Append(events, [user_id |-> LastTurn.user.ID,
                                           event_type |-> "identity.conflict"])
              /\ UNCHANGED <<identity_keys, app_users>>
              /\ Turn.interrupt = identityConflictReply
        /\ LastTurn.interrupt # <<>> =>
              /\ Turn.pc \notin {"lookup_key", "insert_key", "raise_conflict"}
                    \/ Turn.interrupt = <<>>
              /\ UNCHANGED identity_keys ]_vars

\* a message with the email of one other user and the phone of a second one
\* was answered with the conflict prompt, the email's owner pending
EmailOwnerPendingBeforePhoneOwner ==
    /\ LastTurn.interrupt = identityConflictReply
    /\ Len(LastTurn.candidates) = 2
    /\ \E e \in OwnersOf(1), q \in OwnersOf(2) :
          /\ e # q
          /\ LastTurn.user.ID \notin {e, q}
          /\ LastTurn.candidates[1].KeyType = "email"
          /\ PendingID(user_sessions[LastTurn.in.SessionID].metadata) = e

\* the stored row of the turn's user
TurnUserRow == app_users[LastTurn.user.ID]

\* a turn in which identity resolution ran to its end
ResolvedTurn ==
    /\ LastTurn.pc = "done"
    /\ LastTurn.interrupt = <<>>
    /\ LastTurn.user.ID \in DOMAIN app_users

\* C30: after a turn without interrupt the stored tier, status, confidence and
\* primary identifier of the turn's user follow from its name, email and phone:
\* a contact gives 2 / identified / 80 and the lower-cased email, else the
\* digits of the phone; else a name gives 1 / named / 50 and the name; else
\* 0 / anonymous / 20 and "session:" followed by the session id.
IdentityStateFollowsFromContact ==
    ResolvedTurn =>
        <<TurnUserRow.IdentityTier, TurnUserRow.IdentityStatus,
          TurnUserRow.ConfidenceScore, TurnUserRow.PrimaryIdentifier>> =
            IF TurnUserRow.Email # <<>>
            THEN <<2, "identified", 80, ToLower(TurnUserRow.Email)>>
            ELSE IF TurnUserRow.Phone # <<>>
            THEN <<2, "identified", 80, normalizePhone(TurnUserRow.Phone)>>
            ELSE IF TurnUserRow.Name # <<>>
            THEN <<1, "named", 50, TurnUserRow.Name>>
            ELSE <<0, "anonymous", 20, <<"session:">> \o LastTurn.in.SessionID>>

\* a user with a name and an email, whose email key was added, is identified
NamedThenIdentified ==
    /\ ResolvedTurn
    /\ TurnUserRow.Name # <<>>
    /\ TurnUserRow.Email # <<>>
    /\ TurnUserRow.IdentityTier = 2
    /\ \E i \in DOMAIN events :
          events[i] = [user_id |-> LastTurn.user.ID, event_type |-> "identity.key_added"]

\* C31: the merge keeps every key of the conversation's facts, with the value
\* the turn extracted when that is not empty and with its prior value
\* otherwise; no step of a sequence of turns removes or blanks a stored fact.
StoredFactsOnlyGrow ==
    [][ /\ LastTurn.pc = "route" =>
              \A k \in DOMAIN LastTurn.conv.Facts :
                  /\ k \in DOMAIN Turn.convFacts
                  /\ Turn.convFacts[k] = IF Get(Turn.facts, k) # <<>> THEN Turn.facts[k]
                                         ELSE LastTurn.conv.Facts[k]
        /\ \A i \in DOMAIN conversations :
              \A k \in DOMAIN conversations[i].Facts :
                  /\ k \in DOMAIN conversations'[i].Facts
                  /\ TrimSpace(conversations'[i].Facts[k]) # <<>>
                  /\ conversations'[i].Facts[k] # conversations[i].Facts[k] =>
                        /\ LastTurn.pc = "update_conv"
                        /\ conversations'[i].Facts[k] = LastTurn.facts[k] ]_vars

\* a turn that extracted an order id but no email has left the email of an
\* earlier turn in the conversation's stored facts, next to the order id
EarlierFactKept ==
    /\ RoutedTurn
    /\ LastTurn.pc = "done"
    /\ Get(LastTurn.facts, "email") = <<>>
    /\ Get(LastTurn.facts, "order_id") # <<>>
    /\ Get(LastTurn.conv.Facts, "email") # <<>>
    /\ Get(ConvRow(conversations, LastTurn.conv.ID).Facts, "email")
          = Get(LastTurn.conv.Facts, "email")
    /\ Get(ConvRow(conversations, LastTurn.conv.ID).Facts, "order_id")
          = LastTurn.facts["order_id"]

\* the pending-switch entries of a session
PendingOf(sid) == DOMAIN user_sessions[sid].metadata \cap PendingKeys

\* C37: between sequential turns the three pending-switch entries of a session
\* are all there or all absent, and a pending target is another user than the
\* one the session is bound to.
PendingSwitchWellFormed ==
    \A sid \in DOMAIN user_sessions :
        /\ PendingOf(sid) \in {{}, PendingKeys}
        /\ PendingOf(sid) = PendingKeys =>
              /\ user_sessions[sid].metadata["pending_switch_to_user_id"] # ""
              /\ user_sessions[sid].metadata["pending_switch_to_user_id"]
                    # user_sessions[sid].user_id
              /\ user_sessions[sid].metadata["pending_switch_key_type"] \in {"email", "phone"}
              /\ user_sessions[sid].metadata["pending_switch_key_value"] # <<>>

\* a session that confirmed one switch holds the next pending switch
PendingAfterConfirmedSwitch ==
    /\ LastTurn.pc = "done"
    /\ LastTurn.interrupt = identityConflictReply
    /\ PendingOf(LastTurn.in.SessionID) = PendingKeys
    /\ \E i \in DOMAIN events : events[i].event_type = "identity.switch_confirmed"

\* C38: no step clears or replaces a name, email or phone that an AppUser row
\* holds, and no step lowers a row's identity tier.
ContactKeptAndTierNeverLower ==
    [][ \A u \in DOMAIN app_users :
          /\ u \in DOMAIN app_users'
          /\ app_users[u].Name # <<>> => app_users'[u].Name = app_users[u].Name
          /\ app_users[u].Email # <<>> => app_users'[u].Email = app_users[u].Email
          /\ app_users[u].Phone # <<>> => app_users'[u].Phone = app_users[u].Phone
          /\ app_users'[u].IdentityTier >= app_users[u].IdentityTier ]_vars

\* a later message without a name has left the name and the tier of a named
\* user as they were
NameKeptByLaterTurn ==
    /\ ResolvedTurn
    /\ Get(LastTurn.idFacts, "name") = <<>>
    /\ TurnUserRow.Name # <<>>
    /\ TurnUserRow.Email = <<>>
    /\ TurnUserRow.IdentityTier = 1

\* the values a conversation's last intent can have
LastIntents == (DOMAIN RoutingTable) \cup {""}

\* C39: the routing step gives the same intent, question or reply, integration
\* calls and merged facts whatever the conversation's stored last intent is
\* (the extraction does not take the conversation and is done once);
\* the intent is the routing table's entry for the text's classification
\* (TextIntent is classifyIntent tabulated over the texts).
LastIntentIsNotRead ==
    [][ LastTurn.pc = "route" =>
            /\ Turn.intent = IF TextIntent[Turn.in.UserText] \in DOMAIN RoutingTable
                             THEN TextIntent[Turn.in.UserText] ELSE "other"
            /\ \E ex \in {extractFacts(LastTurn.in, "llm", LastTurn.env)} :
                  \A li \in LastIntents \ {LastTurn.conv.LastIntent} :
                      \E alt \in {RouteFrom([LastTurn EXCEPT !.conv.LastIntent = li], ex)} :
                          /\ alt.intent = Turn.intent
                          /\ alt.reply = Turn.reply
                          /\ alt.calls = Turn.calls
                          /\ alt.convFacts = Turn.convFacts ]_vars

\* the message after the order question gave the email only and was handled
\* as "other", on a conversation whose last intent was order_status
FollowUpClassifiedAfresh ==
    /\ RoutedTurn
    /\ AskedBefore(LastTurn)
    /\ LastTurn.conv.LastIntent = "order_status"
    /\ LastTurn.in.UserText = TxtEmail
    /\ LastTurn.intent = "other"

\* OpenAIClient.Chat as Router.llmReply calls it: the input messages are the
\* summary as developer context when there is one (the conversation keeps its
\* length), the history rows with non-blank content in their order, and the
\* latest user text last
ChatInput(summaryLen, history, userText) ==
    (IF summaryLen = 0 THEN <<>>
     ELSE <<[Role |-> "developer", Content |-> <<"Conversation summary">>]>>)
    \o SelectSeq(history, LAMBDA m : TrimSpace(m.Content) # <<>>)
    \o <<[Role |-> "user", Content |-> userText]>>

\* the number of user messages of the input that carry the text
Occurrences(input, text) ==
    Cardinality({i \in 1..Len(input) : input[i] = [Role |-> "user", Content |-> text]})

\* C40: a turn that asked the language model for a free-text reply gave it the
\* turn's user message exactly once, as the last message of the input.
CurrentMessageGivenOnce ==
    (RoutedTurn /\ "llm.chat" \in Range(LastTurn.calls)) =>
        Occurrences(ChatInput(LastTurn.conv.SummaryLen, LastTurn.recent, LastTurn.in.UserText),
                    LastTurn.in.UserText) = 1

\* ------------------------------------------------------------------------
\* the rolling summary: persistAssistant applied to one conversation, reply
\* after reply
\* ------------------------------------------------------------------------

MaxReplies == 4

SummaryReplies == {LLMReply, LLMLongReply, LLMHugeReply, LLMErrorReply, OrderQuestion}

\* the first message of the web session opens the conversation
Greeting ==
    /\ conversations = <<>>
    /\ Handle(WebInbound(TxtHello), EnvOK)

\* Router.persistAssistant on the conversation as a turn reads it
persistAssistant(reply) ==
    /\ conversations # <<>>
    /\ turns <= MaxReplies
    /\ \E r \in {RunHandle(DB, [task[1] EXCEPT !.pc = "insert_reply",
                                               !.conv = conversations[1],
                                               !.convFacts = conversations[1].Facts,
                                               !.reply = reply])} :
           /\ Store(r.db)
           /\ task' = [task EXCEPT ![1] = r.l]
    /\ turns' = turns + 1
    /\ UNCHANGED clientVars

NextSummary ==
    \/ Greeting
    \/ \E reply \in SummaryReplies : persistAssistant(reply)

SpecSummary == Init /\ [][NextSummary]_vars

\* C19: the stored rolling summary is never longer than 1500 characters: each
\* reply is appended ("A: " before it, a line break after what was there) and
\* the result is cut to 1500 before it is stored.
SummaryBounded ==
    /\ \A i \in DOMAIN conversations : conversations[i].SummaryLen <= 1500
    /\ (LastTurn.pc = "done" /\ conversations # <<>>) =>
          \A n \in {LastTurn.conv.SummaryLen
                       + (IF LastTurn.conv.SummaryLen = 0 THEN 0 ELSE 1)
                       + 3 + TextLen(LastTurn.reply)} :
              conversations[1].SummaryLen = IF n <= 1500 THEN n ELSE 1500

\* a reply was appended to a summary below the limit and the result was cut
SummaryCut ==
    /\ LastTurn.pc = "done"
    /\ conversations # <<>>
    /\ LastTurn.conv.SummaryLen \in 1..1499
    /\ LastTurn.conv.SummaryLen + 4 + TextLen(LastTurn.reply) > 1500
    /\ conversations[1].SummaryLen = 1500


\* ------------------------------------------------------------------------
\* the language-model client alone: calls of createResponse and the API's
\* answers to them
\* ------------------------------------------------------------------------

storeVars == <<app_users, user_sessions, identity_keys, conversations, messages,
               events, idempotency_keys, task, turns>>

\* a caller issues a request
createResponse(budget) ==
    /\ request.pc \in {"idle", "done"}
    /\ request' = [NoRequest EXCEPT !.pc = "sent", !.MaxOutputTokens = budget,
                                    !.sent = <<budget>>]
    /\ UNCHANGED <<storeVars, cfg, response, call>>

\* the API answers the request that is out
Answer(a) ==
    /\ request.pc = "sent"
    /\ request' = createResponseWithRetry(request, a)
    /\ UNCHANGED <<storeVars, cfg, response, call>>

NextRetry ==
    \/ \E budget \in TokenBudgets : createResponse(budget)
    \/ \E a \in ApiAnswers : Answer(a)

SpecRetry == Init /\ [][NextRetry]_vars

\* C23: a response call is retried at most once: at most two requests are
\* sent, the second one with the first one's output-token budget doubled and
\* capped at 1200, and the second answer ends the call with a text or an error.
RetriedAtMostOnce ==
    /\ Len(request.sent) <= 2
    /\ request.got <= 2
    /\ request.pc = "sent" => request.got = Len(request.sent) - 1
    /\ request.got = 2 => request.pc = "done"
    /\ Len(request.sent) = 2 =>
          request.sent[2] = IF 2 * request.sent[1] <= 1200 THEN 2 * request.sent[1]
                            ELSE 1200
    /\ request.pc = "done" => (request.text # <<>>) # (request.err # "")

\* a retry was sent with the budget at the cap and was not answered with text
RetryEndedWithoutText ==
    /\ request.pc = "done"
    /\ request.sent = <<700, 1200>>
    /\ request.got = 2
    /\ request.err # ""


\* ------------------------------------------------------------------------
\* /v1/config on two servers started with different environments and sent
\* the same requests
\* ------------------------------------------------------------------------

Methods == {"GET", "POST"}
ModelNames == {<<>>, <<" ">>, <<" ", "g", "p", "t", "-", "4", ".", "1", " ">>}

\* main on server i: the secrets are loaded, then the server listens
main(i, env) ==
    /\ cfg[i].pc = "start"
    /\ cfg' = [cfg EXCEPT ![i] = [pc |-> "serving",
                                  cfg |-> loadSecretsFromEnv(cfg[i].cfg, env)]]
    /\ UNCHANGED <<storeVars, request, response, call>>

\* the same request to /v1/config on both servers
configHandler(method, preferred) ==
    /\ \A i \in Servers : cfg[i].pc = "serving"
    /\ cfg' = [i \in Servers |->
                  [cfg[i] EXCEPT !.cfg = ConfigAfter(cfg[i].cfg, method, preferred)]]
    /\ response' = [i \in Servers |-> ConfigResponse(cfg[i].cfg, method, preferred)]
    /\ UNCHANGED <<storeVars, request, call>>

NextConfig ==
    \/ \E i \in Servers, env \in Environments : main(i, env)
    \/ \E method \in Methods, preferred \in ModelNames : configHandler(method, preferred)

SpecConfig == Init /\ [][NextConfig]_vars

\* the secrets of the two configurations are set or unset alike
SameButSecretValues(a, b) ==
    /\ a.PreferredModel = b.PreferredModel
    /\ (a.OpenAIAPIKey = <<>>) = (b.OpenAIAPIKey = <<>>)
    /\ (a.SupabaseURL = <<>>) = (b.SupabaseURL = <<>>)
    /\ (a.SupabaseServiceRole = <<>>) = (b.SupabaseServiceRole = <<>>)

\* C26: the /v1/config response holds the preferred model name and one
\* boolean per secret telling whether it is set, and two configurations that
\* differ only in the values of their non-empty secrets get the same response.
ConfigResponseHidesSecrets ==
    /\ SameButSecretValues(cfg[1].cfg, cfg[2].cfg) => response[1] = response[2]
    /\ \A i \in Servers :
          response[i].status = 200 =>
              /\ DOMAIN response[i].body = {"ok", "config"}
              /\ DOMAIN response[i].body.config =
                    {"preferred_model", "has_openai_key", "has_supabase_url",
                     "has_supabase_service_role"}
              /\ response[i].body.config.preferred_model = cfg[i].cfg.PreferredModel
              /\ response[i].body.config.has_openai_key = (cfg[i].cfg.OpenAIAPIKey # <<>>)
              /\ response[i].body.config.has_supabase_url = (cfg[i].cfg.SupabaseURL # <<>>)
              /\ response[i].body.config.has_supabase_service_role
                    = (cfg[i].cfg.SupabaseServiceRole # <<>>)

\* two servers with different keys and service roles gave the same response
DifferentSecretsSameResponse ==
    /\ response[1].status = 200
    /\ response[1] = response[2]
    /\ response[1].body.config.has_openai_key
    /\ cfg[1].cfg.OpenAIAPIKey # cfg[2].cfg.OpenAIAPIKey
    /\ cfg[1].cfg.SupabaseServiceRole # <<>>
    /\ cfg[1].cfg.SupabaseServiceRole # cfg[2].cfg.SupabaseServiceRole

\* ------------------------------------------------------------------------
\* the core's functions, each behaviour one call: the slot-filling gate with the
\* routing table's specs and with specs that require a phone in other places
\* ------------------------------------------------------------------------

\* an IntentSpec with no clarifying question and no tool
RequirementSpec(allOf, anyOf) ==
    [RequiredAnyOf |-> anyOf, RequiredAllOf |-> allOf, ClarifyQuestions |-> <<>>,
     ToolPlan |-> NoTools]

GateSpecs ==
    {RoutingTable[i] : i \in DOMAIN RoutingTable}
    \cup {RequirementSpec(<<"phone">>, <<>>),
          RequirementSpec(<<"order_id", "phone">>, <<>>),
          RequirementSpec(<<>>, <<<<"phone", "email">>, <<"order_id">>>>),
          RequirementSpec(<<"order_id">>, <<<<"phone">>>>)}

\* fact maps over the fields the specs require
GateFacts ==
    LET value == [order_id |-> <<"1", "2", "3", "4", "5">>,
                  email |-> <<"a", "@", "b", ".", "c", "o", "m">>,
                  phone |-> WaPhone, item |-> <<"s", "h", "o", "e">>]
    IN  {[k \in ks |-> value[k]] : ks \in SUBSET DOMAIN value}

GateInbounds == {WebInbound(TxtHello), WaInbound(TxtHello)}

\* missingFields called with a spec, a fact map and an inbound
missingFieldsCall(spec, facts, in) ==
    /\ call = NoCall
    /\ call' = [fn |-> "missingFields", spec |-> spec, facts |-> facts, in |-> in,
                missing |-> missingFields(spec, facts, in)]
    /\ UNCHANGED <<storeVars, request, cfg, response>>

\* texts for classifyIntent: every keyword, or a text without one, followed by
\* every other, and a text in mixed case
Keywords == UNION {KeywordGroups[g].keywords : g \in DOMAIN KeywordGroups}
TxtCancelDelivery ==
    <<"C", "a", "n", "c", "e", "l", " ", "D", "E", "L", "I", "V", "E", "R", "Y">>
ClassifyTexts ==
    {a \o <<" ">> \o b : a, b \in Keywords \cup {TxtHello}} \cup {TxtCancelDelivery}

\* classifyIntent called with a text
classifyIntentCall(text) ==
    /\ call = NoCall
    /\ call' = [fn |-> "classifyIntent", text |-> text, intent |-> classifyIntent(text)]
    /\ UNCHANGED <<storeVars, request, cfg, response>>

\* inbounds for extractFacts: no channel address, a phone number, one in
\* international notation, and addresses without a digit
ChannelAddresses ==
    {<<>>, WaPhone, <<"+", "1", " ", "5", "5", "5", " ", "0", "1", "0", " ", "0", "0", "0", "2">>,
     <<"s", "u", "p", "p", "o", "r", "t">>, <<" ">>}
ExtractTexts == {TxtHello, TxtEmail, TxtPhone, TxtBoth, TxtName, TxtTrack}
ExtractInbounds ==
    {[Channel |-> IF from = <<>> THEN "web" ELSE "whatsapp_meta",
      SessionID |-> IF from = <<>> THEN WebSession ELSE <<"wa:">> \o from,
      UserText |-> t,
      WhatsAppMsgID |-> IF from = <<>> THEN "" ELSE "wamid.1",
      WhatsAppFrom |-> from] : t \in ExtractTexts, from \in ChannelAddresses}

\* the extractor returns a phone number, and fields made of blanks
EnvExtractedPhone ==
    [EnvOK EXCEPT !.extracted =
        [phone |-> <<" ", "9", "8", "7", "6", "5", "4", "3", "2", "1", "0">>]]
EnvExtractedBlanks ==
    [EnvOK EXCEPT !.extracted = [phone |-> <<" ", " ">>, name |-> <<>>, item |-> <<" ">>]]
ExtractEnvs == {EnvOK, EnvDown, EnvExtracted, EnvExtractedEmail, EnvExtractedPhone,
                EnvExtractedBlanks}

\* Router.extractFacts called with an inbound, by a router with or without a
\* language model
extractFactsCall(in, llm, env) ==
    /\ call = NoCall
    /\ call' = [fn |-> "extractFacts", in |-> in, llm |-> llm, env |-> env,
                facts |-> extractFacts(in, llm, env).facts,
                extractorErr |-> extractFacts(in, llm, env).err]
    /\ UNCHANGED <<storeVars, request, cfg, response>>

NextCalls ==
    \/ \E spec \in GateSpecs, facts \in GateFacts, in \in GateInbounds :
            missingFieldsCall(spec, facts, in)
    \/ \E text \in ClassifyTexts : classifyIntentCall(text)
    \/ \E in \in ExtractInbounds, llm \in {"nil", "llm"}, env \in ExtractEnvs :
            extractFactsCall(in, llm, env)

SpecCalls == Init /\ [][NextCalls]_vars

GroupOrder ==
    <<"order_status", "return_refund", "complaint_support", "lead_capture",
      "comparison", "pricing_availability", "product_discovery">>
KeywordsOf(intent) ==
    UNION {KeywordGroups[g].keywords :
             g \in {x \in DOMAIN KeywordGroups : KeywordGroups[x].intent = intent}}

\* the positions in GroupOrder of the groups with a keyword in the text
GroupsIn(text) ==
    {i \in DOMAIN GroupOrder :
        \E k \in KeywordsOf(GroupOrder[i]) : Contains(ToLower(text), k)}

\* C33: classifyIntent returns the intent of the earliest group, in the order
\* order-status, return/refund, complaint/support, lead-capture, comparison,
\* pricing/availability, product-discovery, that has a keyword in the
\* lower-cased text, and "other" when no group has one.
EarliestGroupWins ==
    call.fn = "classifyIntent" =>
        \E hit \in {GroupsIn(call.text)} :
            call.intent = IF hit = {} THEN "other"
                          ELSE GroupOrder[CHOOSE i \in hit : \A j \in hit : i <= j]

\* a text in mixed case with keywords of two groups got the earlier one's intent
TwoGroupsEarlierWon ==
    /\ call.fn = "classifyIntent"
    /\ call.text = TxtCancelDelivery
    /\ GroupsIn(call.text) = {1, 2}
    /\ call.intent = "order_status"

\* C34 as stated: when the inbound carries a channel address, the phone of the
\* extracted facts is that address, normalized, whatever the recognizers and
\* the extractor find.
ChannelPhoneIsAuthoritative ==
    (call.fn = "extractFacts" /\ call.in.WhatsAppFrom # <<>>) =>
        /\ "phone" \in DOMAIN call.facts
        /\ call.facts["phone"] = normalizePhone(call.in.WhatsAppFrom)

\* C35 as stated: no key of the extracted facts has an empty or blank value.
NoBlankFact ==
    call.fn = "extractFacts" =>
        \A k \in DOMAIN call.facts : TrimSpace(call.facts[k]) # <<>>

\* ------------------------------------------------------------------------
\* two workers on one session: the store holds the first web visitor, who
\* gave the email address, and a second web session's messages are handled
\* by two workers whose round trips interleave
\* ------------------------------------------------------------------------

MaxSessionTurns == 2

EmptyStore ==
    [app_users |-> [u \in {} |-> NoUser], user_sessions |-> [x \in {} |-> NoSession],
     identity_keys |-> {}, conversations |-> <<>>, messages |-> <<>>, events |-> <<>>,
     idempotency_keys |-> {}]

\* the store after the first visitor's message
StoreWithEmailOwner ==
    RunHandle(EmptyStore, EnterHandle(WebInbound(TxtEmail), EnvOK)).db

InitSession ==
    /\ \E db \in {StoreWithEmailOwner} :
          /\ app_users = db.app_users
          /\ user_sessions = db.user_sessions
          /\ identity_keys = db.identity_keys
          /\ conversations = db.conversations
          /\ messages = db.messages
          /\ events = db.events
          /\ idempotency_keys = db.idempotency_keys
    /\ task = [t \in Tasks |-> IdleTask]
    /\ turns = 0
    /\ request = NoRequest
    /\ cfg = [i \in Servers |-> InitialServer]
    /\ response = [i \in Servers |-> NoResponse]
    /\ call = NoCall

SessionTexts == {TxtHello, TxtEmail, TxtSwitch}

\* a worker receives a message of the second web session
Arrive(t, text) ==
    /\ turns < MaxSessionTurns
    /\ task[t].pc \in {"idle", "done"}
    /\ task' = [task EXCEPT ![t] = EnterHandle([WebInbound(text) EXCEPT
                                                  !.SessionID = OtherWebSession], EnvOK)]
    /\ turns' = turns + 1
    /\ UNCHANGED <<app_users, user_sessions, identity_keys, conversations, messages,
                   events, idempotency_keys>>
    /\ UNCHANGED clientVars

NextSession ==
    \E t \in Tasks :
        \/ \E text \in SessionTexts : Arrive(t, text)
        \/ Step(t)

SpecSession == InitSession /\ [][NextSession]_vars

\* C36 as stated: the session write-back that ends a turn's identity step
\* leaves the session bound to the user it is bound to in the store and
\* leaves the pending switch that the store holds.
WriteBackKeepsOtherTurnsStep ==
    [][ \A t \in Tasks :
          (/\ task[t].pc = "write_session"
           /\ task'[t].pc # "write_session"
           /\ task[t].in.SessionID \in DOMAIN user_sessions) =>
              /\ user_sessions'[task[t].in.SessionID].user_id
                    = user_sessions[task[t].in.SessionID].user_id
              /\ (PendingKeys \subseteq DOMAIN user_sessions[task[t].in.SessionID].metadata) =>
                    (PendingKeys \subseteq
                        DOMAIN user_sessions'[task[t].in.SessionID].metadata) ]_vars

====
